---- MODULE Spec2Model ----
(***************************************************************************)
(* Model of the whisper-transcriber pipeline:                              *)
(*   AudioChunker            (src/src/transcription/chunker.py)            *)
(*   TranscriptionProcessor  (src/src/transcription/processor.py)          *)
(*   WhisperTranscriber      (src/src/transcription/__init__.py)           *)
(*   MainWindow._process_queue, per file (src/src/gui/window.py)           *)
(*   TranscriptionHandler    (src/src/transcription/handler.py)            *)
(* and, each under a specification of its own:                             *)
(*   PathSpec       SecurityManager.sanitize_path (src/src/utils/security.py) *)
(*   SettingsSpec   Settings (src/src/utils/settings.py)                   *)
(*   RunsSpec       several transcribers on one temp_dir                   *)
(*   QueueSpec      the GUI work queue and its worker (src/src/gui/window.py) *)
(*   WorkerSpec     the worker on a filled queue, with Start and Cancel    *)
(*   SplitPointsSpec  AudioChunker._find_split_points alone                *)
(*   ProcessSpec    process_chunks and _transcribe_chunk alone             *)
(*   AssemblySpec   TranscriptionHandler: prompts and assembled text       *)
(* Times are milliseconds, sizes are bytes, as in the source.              *)
(***************************************************************************)
EXTENDS Integers, Sequences, FiniteSets

(***************************************************************************)
(* Bounds of the model.                                                    *)
(***************************************************************************)
\* audio durations go up to MaxLenUnits half-targets (450 s each)
MaxLenUnits == 4
\* detect_nonsilent returns at most MaxRanges ranges per search window
MaxRanges == 2
\* the progress callback raises at most MaxCallbackFailures times in a run
MaxCallbackFailures == 1
\* characters of a path handed to sanitize_path
MaxPathLen == 5
\* files added to the GUI queue, and the chunks of each
MaxFiles == 3
MaxFileChunks == 2
\* runs sharing one temp_dir, and the chunks of each
MaxRuns == 2
MaxRunChunks == 2
\* add_recent_directory calls in a row, and the directories they choose from
MaxAdds == 6
MaxDirs == 6
\* chunks of a file the handler transcribes
MaxParts == 3
\* chunks handed to process_chunks
MaxProcessChunks == 2
\* worker threads in their last statement at a time
MaxExiting == 1

(***************************************************************************)
(* Program constants.                                                      *)
(***************************************************************************)
MAX_CHUNK_SIZE == 24 * 1024 * 1024
MAX_CHUNK_DURATION == 15 * 60 * 1000
SEARCH_RADIUS == 5000
MAX_ATTEMPTS == 5
HANDLER_MAX_TRIES == 3
PROMPT_TOKENS == 200
MIN_API_INTERVAL == 1
RATE_LIMIT_COOLDOWN == 60
RECENT_LIMIT == 5

Min(a, b) == IF a <= b THEN a ELSE b
Max(a, b) == IF a >= b THEN a ELSE b
Abs(a) == IF a >= 0 THEN a ELSE 0 - a

\* chunker.py 63-66: min(MAX_CHUNK_DURATION, (MAX_CHUNK_SIZE*8)//(192*1024)*1000)
target_duration ==
    Min(MAX_CHUNK_DURATION, ((MAX_CHUNK_SIZE * 8) \div (192 * 1024)) * 1000)

(***************************************************************************)
(* Inputs: audio files, detector results, engine answers.                  *)
(***************************************************************************)
HalfTarget == MAX_CHUNK_DURATION \div 2
Durations == { k * HalfTarget + d : k \in 0..MaxLenUnits, d \in {0, 1, 3000} }
FileSizes == { 1024, MAX_CHUNK_SIZE, MAX_CHUNK_SIZE + 1 }

\* offsets (ms, relative to the search segment) at which a detected range may
\* begin or end; the segment's own length is always a possible end
Grid == { 0, 2000, 4000, 6000, 8000, 10000 }
GridIn(seglen) == { g \in Grid : g <= seglen } \cup { seglen }

\* ranges as pydub.silence.detect_nonsilent returns them: [start, end] with
\* 0 <= start < end <= len(segment), ascending and disjoint.  A list of n
\* ranges is given by its 2n endpoints, taken in increasing order.
RECURSIVE Ascending(_)
Ascending(S) ==
    IF S = {} THEN <<>>
    ELSE LET m == CHOOSE x \in S : \A y \in S : x <= y
         IN <<m>> \o Ascending(S \ {m})
PairUp(pts) == [k \in 1..(Len(pts) \div 2) |-> << pts[2 * k - 1], pts[2 * k] >>]
RangeLists(seglen) ==
    { PairUp(Ascending(S)) :
        S \in { T \in SUBSET GridIn(seglen) :
                  Cardinality(T) % 2 = 0 /\ Cardinality(T) <= 2 * MaxRanges } }

\* texts the engine may return: characters, with blanks to be stripped
Texts == { <<"o", "k">>, <<" ", "a", " ">>, <<" ">> }

NoFile == <<"absent">>
OldFile == <<"old">>
PartialFile == <<"partial">>
Stale == <<"stale", 0>>
ChunkFile(i) == <<"chunk", i>>

(***************************************************************************)
(* State.                                                                  *)
(***************************************************************************)
VARIABLES
    pc,             \* position of the run
    caller,         \* who runs the file: "api" (WhisperTranscriber.transcribe_file
                    \* called directly), "gui" (the same, called by the worker),
                    \* "handler" (TranscriptionHandler.transcribe_file); "chunk":
                    \* no file is run, TranscriptionProcessor._transcribe_chunk is
                    \* called on a chunk file
    tempFiles,      \* files in the chunker's temp_dir (besides the output file)
    outLoc,         \* where output_path lies: "outside" or "inTemp" (inside temp_dir)
    outFile,        \* the file at output_path
    finalFile,      \* gui: the transcript saved under its final name
    audioLen,       \* len(audio), -1 when no audio is loaded
    fileSize,       \* os.path.getsize(file_path), -1 when not in use
    small,          \* chunk_audio took the single-chunk path
    current_pos,    \* _find_split_points: current_pos
    split_points,   \* _find_split_points / chunk_audio: split_points
    detectCalls,    \* number of detect_nonsilent calls of this run
    lastRanges,     \* what the latest detect_nonsilent call returned, and its window
    exported,       \* chunk_audio: spans [start, end] of the chunks exported so far
    chunk_paths,    \* transcribe_file: chunk_paths (chunk numbers)
    i,              \* process_chunks: i (1-based), 0 outside the loop
    attempt,        \* process_chunks: attempt (0-based)
    inflight,       \* chunks whose request is awaiting the engine's answer
    subs,           \* per chunk: requests sent to the engine
    oks,            \* per chunk: requests the engine answered with a text
    lastPrompt,     \* per chunk: prompt argument of its latest request
    transcriptions, \* process_chunks: transcriptions
    cbFailures,     \* times the progress callback raised
    purges,         \* chunker.cleanup() calls of the run (teardown purges)
    guiStatus,      \* gui: "none", "saved" or "failed" (an exception was handled)
    returnValue,    \* handler: the text transcribe_file returned
    lastError,      \* kind of the exception that ended the latest request, "none"
                    \* once the next request is out
    waited,         \* seconds slept on account of that exception, 0 if none
    sinceSubmit,    \* whole seconds since the latest request went out, counted up
                    \* to MIN_API_INTERVAL; -1 before the first request
    result          \* "none", "returned", "raised"; with error the exception kind

VARIABLES
    path,           \* sanitize_path: the argument
    sanitized       \* sanitize_path: the value returned, <<"unset">> before the call

pathVars == << path, sanitized >>

VARIABLES
    settings,       \* Settings.settings of the instance in use
    config_file,    \* what settings.json holds
    added,          \* arguments of the add_recent_directory calls since the list
                    \* was last empty, oldest first
    reloaded        \* Settings.settings of an instance built afterwards on the
                    \* same config_dir, NoInstance while there is none

settingsVars == << settings, config_file, added, reloaded >>

VARIABLES
    temp_dir,       \* files in the temp_dir the transcribers of several runs share
    leftover,       \* temp_dir held a file of an earlier run when the first
                    \* transcriber was built
    runs            \* per run: pc, total (chunks of its file), exported (chunks
                    \* written so far), done (chunks transcribed so far)

runsVars == << temp_dir, leftover, runs >>

VARIABLES
    queue,          \* TranscriptionQueue.queue: files waiting, oldest first
    file_list,      \* MainWindow.file_list: the files the list box shows
    enqueued,       \* number of files added so far; files are numbered in the
                    \* order they were added
    processing,     \* MainWindow.processing
    start_btn,      \* state of the Start button
    cancel_btn,     \* state of the Cancel button
    worker,         \* the thread running _process_queue: pc, file (current_file),
                    \* total (chunks of the file), submitted (requests sent),
                    \* name (filename, once generated), late (the file was
                    \* taken from the queue with the processing flag down)
    update_pending, \* the update of _processing_complete waits in gui_update_queue
    saved,          \* the output directory: transcripts under their final names
    status,         \* kind of the latest status message
    started,        \* the files taken from the queue so far, in that order
    interrupted,    \* Cancel was pressed while a file with chunks still to be
                    \* submitted was being transcribed
    exiting,        \* worker threads that have queued their completion update
                    \* and have not ended yet
    temp_out        \* the temporary output file temp_<time>.txt: the file whose
                    \* transcript it holds, 0 while there is none

queueVars == << queue, file_list, enqueued, processing, start_btn, cancel_btn, worker,
                update_pending, saved, status, started, interrupted, exiting,
                temp_out >>

VARIABLES
    transcription_parts, \* handler transcribe_file: transcription_parts
    prompt,         \* handler _transcribe_chunk: prompt of the latest request
    asm_tries,      \* calls of _transcribe_chunk made by backoff for the chunk
    asm_pc,         \* "idle", "submit", "await", "returned", "raised"
    full_text       \* the text transcribe_file returned

assemblyVars == << transcription_parts, prompt, asm_tries, asm_pc, full_text >>

\* the state of everything but the run of a file
others == << pathVars, settingsVars, runsVars, queueVars, assemblyVars >>

pipeline == << pc, caller, tempFiles, outLoc, outFile, finalFile, audioLen, fileSize,
           small, current_pos, split_points, detectCalls, lastRanges, exported,
           chunk_paths, i, attempt, inflight, subs, oks, lastPrompt,
           transcriptions, cbFailures, purges, guiStatus, returnValue,
           lastError, waited, sinceSubmit, result >>

vars == << pipeline, others >>

\* what a component leaves alone: everything but its own variables
besidesPath == << pipeline, settingsVars, runsVars, queueVars, assemblyVars >>
besidesSettings == << pipeline, pathVars, runsVars, queueVars, assemblyVars >>
besidesRuns == << pipeline, pathVars, settingsVars, queueVars, assemblyVars >>
besidesQueue == << pipeline, pathVars, settingsVars, runsVars, assemblyVars >>
besidesAssembly == << pipeline, pathVars, settingsVars, runsVars, queueVars >>

Unset == <<"unset">>

\* no sanitize_path call is under way
PathIdle == path = <<>> /\ sanitized = Unset

Missing == <<"missing">>

\* the settings of no instance: a dict without keys
NoInstance == [language |-> Missing, custom |-> Missing, recent_directories |-> Missing]
\* no settings.json
NoConfigFile == [valid |-> FALSE, doc |-> NoInstance]

\* no worker thread
NoWorker ==
    [pc |-> "none", file |-> 0, total |-> 0, submitted |-> 0, name |-> "none",
     late |-> FALSE]

\* MainWindow.__init__ (window.py 68-96) and _setup_ui 163-170: the window is up,
\* nothing has been added
QueueIdle ==
    /\ queue = <<>>
    /\ file_list = {}
    /\ enqueued = 0
    /\ processing = FALSE
    /\ start_btn = "normal"
    /\ cancel_btn = "disabled"
    /\ worker = NoWorker
    /\ update_pending = FALSE
    /\ saved = {}
    /\ status = "none"
    /\ started = <<>>
    /\ interrupted = FALSE
    /\ exiting = 0
    /\ temp_out = 0

\* no thread runs a transcriber of its own
RunsIdle ==
    /\ temp_dir = {}
    /\ leftover = FALSE
    /\ runs = <<>>

\* no Settings instance exists
SettingsIdle ==
    /\ settings = NoInstance
    /\ config_file = NoConfigFile
    /\ added = <<>>
    /\ reloaded = NoInstance

NoPrompt == <<"None">>

\* no text-level run of the handler is under way
AssemblyIdle ==
    /\ transcription_parts = <<>>
    /\ prompt = NoPrompt
    /\ asm_tries = 0
    /\ asm_pc = "idle"
    /\ full_text = NoPrompt

TextFile(t) == <<"text", t>>

(***************************************************************************)
(* Text assembly (processor.py 148).                                       *)
(***************************************************************************)
\* the characters str.strip() and str.split() take for blanks
Blanks == {" ", "\n", "\t"}
IsSpace(c) == c \in Blanks

RECURSIVE LStrip(_)
LStrip(t) == IF t # <<>> /\ IsSpace(Head(t)) THEN LStrip(Tail(t)) ELSE t

RECURSIVE RStrip(_)
RStrip(t) ==
    IF t # <<>> /\ IsSpace(t[Len(t)]) THEN RStrip(SubSeq(t, 1, Len(t) - 1)) ELSE t

\* str.strip()
Strip(t) == RStrip(LStrip(t))

RECURSIVE Join(_, _)
\* sep.join(parts), put together half by half
Join(sep, parts) ==
    IF parts = <<>> THEN <<>>
    ELSE IF Len(parts) = 1 THEN parts[1]
    ELSE LET h == Len(parts) \div 2
         IN Join(sep, SubSeq(parts, 1, h)) \o sep
                \o Join(sep, SubSeq(parts, h + 1, Len(parts)))

NonEmpty(t) == t # <<>>

\* "\n\n".join(t.strip() for t in transcriptions if t.strip())
final_text(ts) ==
    Join(<<"\n", "\n">>, SelectSeq([k \in 1..Len(ts) |-> Strip(ts[k])], NonEmpty))

RECURSIVE SplitOn(_, _)
\* the pieces of t between characters of seps.  The pieces of a text are those
\* of its two halves, the last piece of the first half and the first piece of
\* the second being one piece.
SplitOn(seps, t) ==
    IF t = <<>> THEN << <<>> >>
    ELSE IF Len(t) = 1 THEN (IF t[1] \in seps THEN << <<>>, <<>> >> ELSE << t >>)
    ELSE LET h == Len(t) \div 2
             l == SplitOn(seps, SubSeq(t, 1, h))
             r == SplitOn(seps, SubSeq(t, h + 1, Len(t)))
         IN SubSeq(l, 1, Len(l) - 1) \o << l[Len(l)] \o r[1] >> \o Tail(r)

\* str.split(): the maximal runs of non-blank characters
Words(t) == SelectSeq(SplitOn(Blanks, t), NonEmpty)

\* str.splitlines(): a final line break opens no further line
SplitLines(t) ==
    LET pieces == SplitOn({"\n"}, t)
    IN IF pieces[Len(pieces)] = <<>> THEN SubSeq(pieces, 1, Len(pieces) - 1) ELSE pieces

\* Periods(n): n periods
Periods(n) == [k \in 1..n |-> "."]

\* where pat first occurs in t, 0 if nowhere
Find(pat, t) ==
    LET at == { a \in 1..(Len(t) - Len(pat) + 1) : SubSeq(t, a, a + Len(pat) - 1) = pat }
    IN IF at = {} THEN 0 ELSE CHOOSE a \in at : \A b \in at : a <= b

RECURSIVE ReplaceEllipsis(_)
\* str.replace("...", "."): the occurrences are taken left to right, each after
\* the end of the one before
ReplaceEllipsis(t) ==
    LET a == Find(Periods(3), t)
    IN IF a = 0 THEN t
       ELSE SubSeq(t, 1, a - 1) \o <<".">> \o ReplaceEllipsis(SubSeq(t, a + 3, Len(t)))

\* handler.py 49-50 with the first 200 words in place of the last
HandlerPromptFirstWords(previous_text) ==
    LET words == Words(previous_text)
    IN Join(<<" ">>, SubSeq(words, 1, Min(Len(words), PROMPT_TOKENS)))

\* handler.py 49-50: the last 200 words of the previous text, joined by blanks
HandlerPrompt(previous_text) ==
    LET words == Words(previous_text)
    IN Join(<<" ">>, SubSeq(words, Max(1, Len(words) - PROMPT_TOKENS + 1), Len(words)))

\* handler.py 127-128: collapse ellipses, strip the lines, drop the blank ones
handler_normalize(t) ==
    LET lines == SplitLines(ReplaceEllipsis(t))
    IN Join(<<"\n">>, SelectSeq([k \in 1..Len(lines) |-> Strip(lines[k])], NonEmpty))

\* handler.py 124-128: join with a blank line, then normalize
handler_full_text(parts) == handler_normalize(final_text(parts))

(***************************************************************************)
(* _find_split_points: the choice among the detected ranges                *)
(* (chunker.py 91-106).  closest < 0 stands for None, dist < 0 for inf.    *)
(***************************************************************************)
RECURSIVE ClosestScanLastWins(_, _, _, _, _, _)
\* the scan with <= in place of <: among equally distant midpoints the last wins
ClosestScanLastWins(ranges, k, target_relative, search_start, closest_point, min_distance) ==
    IF k > Len(ranges) THEN closest_point
    ELSE LET mid_point == (ranges[k][1] + ranges[k][2]) \div 2
             distance == Abs(mid_point - target_relative)
         IN IF min_distance < 0 \/ distance <= min_distance
            THEN ClosestScanLastWins(ranges, k + 1, target_relative, search_start,
                                     mid_point + search_start, distance)
            ELSE ClosestScanLastWins(ranges, k + 1, target_relative, search_start,
                                     closest_point, min_distance)

RECURSIVE ClosestScan(_, _, _, _, _, _)
ClosestScan(ranges, k, target_relative, search_start, closest_point, min_distance) ==
    IF k > Len(ranges) THEN closest_point
    ELSE LET mid_point == (ranges[k][1] + ranges[k][2]) \div 2
             distance == Abs(mid_point - target_relative)
         IN IF min_distance < 0 \/ distance < min_distance
            THEN ClosestScan(ranges, k + 1, target_relative, search_start,
                             mid_point + search_start, distance)
            ELSE ClosestScan(ranges, k + 1, target_relative, search_start,
                             closest_point, min_distance)

\* the chosen midpoint taken relative to the search segment, search_start forgotten
SplitPointSegmentRelative(ranges, end_pos, search_start) ==
    IF ranges # <<>>
    THEN ClosestScan(ranges, 1, end_pos - search_start, 0, 0 - 1, 0 - 1)
    ELSE end_pos

\* the position is left where it was whenever the detector reports a range
SplitPointKeepsPosition(ranges, end_pos, search_start) ==
    IF ranges # <<>> THEN current_pos ELSE end_pos

\* the split point appended for one target end_pos, given the detector's answer
SplitPointFor(ranges, end_pos, search_start) ==
    IF ranges # <<>>
    THEN ClosestScan(ranges, 1, end_pos - search_start, search_start, 0 - 1, 0 - 1)
    ELSE end_pos

\* the single-chunk test with strict comparisons
IsSmallFileStrict(size, len) == size < MAX_CHUNK_SIZE /\ len < MAX_CHUNK_DURATION

\* chunk_audio 142: the single-chunk test
IsSmallFile(size, len) == size <= MAX_CHUNK_SIZE /\ len <= MAX_CHUNK_DURATION

\* chunk_audio 143-148: the single chunk is the whole audio
SingleChunkSpan(len) == <<0, len>>

\* chunk_audio 165-167: chunk n (0-based) of the plan
PlannedSpan(sp, n) == <<sp[n + 1], sp[n + 2]>>

(***************************************************************************)
(* Helpers of the actions.                                                 *)
(***************************************************************************)
\* a purge that finds nothing to remove
LeaveOldTempFiles(files) == files

\* _cleanup_old_temp_files (chunker.py 38-44): shutil.rmtree(temp_dir), mkdir.
\* An output file lying inside temp_dir goes with the tree.
CleanupOldTempFiles(files) == {}
PurgedOut(f) == IF outLoc = "inTemp" THEN NoFile ELSE f

\* cleanup() that leaves the files where they are
CleanupSkipped(files) == files

\* AudioChunker.cleanup (chunker.py 196-198)
Cleanup(files) == CleanupOldTempFiles(files)

\* where control goes when transcribe_file is left
AfterReturn == IF caller = "gui" THEN "gui_save" ELSE "returned"
AfterRaise == IF caller = "gui" THEN "gui_exit" ELSE "raised"

\* an exception that leaves transcribe_file past its except clause
RaiseWithoutCleanup(err, out) ==
    /\ UNCHANGED << tempFiles, purges >>
    /\ outFile' = out
    /\ result' = <<"raised", err>>
    /\ pc' = AfterRaise

\* transcribe_file 85-88: except Exception: self.chunker.cleanup(); raise.
\* out is the output file at the moment of the raise.
RaiseFromTranscribeFile(err, out) ==
    /\ tempFiles' = Cleanup(tempFiles)
    /\ outFile' = PurgedOut(out)
    /\ purges' = purges + 1
    /\ result' = <<"raised", err>>
    /\ pc' = AfterRaise

plan == << audioLen, fileSize, small, current_pos, split_points, lastRanges, exported >>
timing == << lastError, waited, sinceSubmit >>
engine == << guiStatus, returnValue, i, attempt, inflight, subs, oks, lastPrompt,
            transcriptions, cbFailures, timing >>

(***************************************************************************)
(* The state before a transcriber is built: temp_dir may hold files left   *)
(* by an earlier run, the output path may hold an older file.              *)
(***************************************************************************)
Init ==
    /\ pc = "start"
    /\ caller \in {"api", "gui", "handler"}
    /\ tempFiles \in { {}, {Stale} }
    /\ outLoc \in {"outside", "inTemp"}
    /\ outFile \in {NoFile, OldFile}
    /\ (caller = "gui" \/ outLoc = "inTemp") => outFile = NoFile
    /\ caller = "handler" => (outLoc = "outside" /\ outFile = NoFile)
    /\ finalFile = NoFile
    /\ audioLen = 0 - 1
    /\ fileSize = 0 - 1
    /\ small = FALSE
    /\ current_pos = 0
    /\ split_points = <<>>
    /\ detectCalls = 0
    /\ lastRanges = <<>>
    /\ exported = <<>>
    /\ chunk_paths = <<>>
    /\ i = 0
    /\ attempt = 0
    /\ inflight = {}
    /\ subs = <<>>
    /\ oks = <<>>
    /\ lastPrompt = <<>>
    /\ transcriptions = <<>>
    /\ cbFailures = 0
    /\ purges = 0
    /\ guiStatus = "none"
    /\ returnValue = NoFile
    /\ lastError = "none"
    /\ waited = 0
    /\ sinceSubmit = 0 - 1
    /\ result = <<"none">>
    /\ PathIdle
    /\ SettingsIdle
    /\ RunsIdle
    /\ QueueIdle
    /\ AssemblyIdle

\* WhisperTranscriber.__init__ -> AudioChunker.__init__: mkdir, purge
Construct ==
    /\ pc = "start"
    /\ tempFiles' = CleanupOldTempFiles(tempFiles)
    /\ outFile' = PurgedOut(outFile)
    /\ pc' = "ready"
    /\ UNCHANGED << caller, outLoc, finalFile, plan, detectCalls, chunk_paths,
                    engine, purges, result >>
    /\ UNCHANGED others

\* transcribe_file 59-62: the format check
TranscribeFile ==
    /\ pc = "ready"
    /\ caller # "handler"
    /\ \E supported \in BOOLEAN :
          IF supported
          THEN /\ pc' = "chunk_audio"
               /\ UNCHANGED << tempFiles, outFile, purges, result >>
          ELSE RaiseFromTranscribeFile("ValueError", outFile)
    /\ UNCHANGED << caller, outLoc, finalFile, plan, detectCalls, chunk_paths, engine >>
    /\ UNCHANGED others

\* chunk_audio 133-142, up to the first export: purge, decode, single-chunk test
ChunkAudioBegin ==
    /\ pc = "chunk_audio"
    /\ \E decoded \in BOOLEAN, len \in Durations, size \in FileSizes :
          IF decoded
          THEN /\ tempFiles' = CleanupOldTempFiles(tempFiles)
               /\ outFile' = PurgedOut(outFile)
               /\ audioLen' = len
               /\ fileSize' = size
               /\ small' = IsSmallFile(size, len)
               /\ pc' = IF IsSmallFile(size, len) THEN "export" ELSE "find_split"
               /\ UNCHANGED << purges, result >>
          ELSE /\ RaiseFromTranscribeFile("DecodeError", PurgedOut(outFile))
               /\ UNCHANGED << audioLen, fileSize, small >>
    /\ UNCHANGED << caller, outLoc, finalFile, current_pos, split_points, lastRanges,
                    exported, detectCalls, chunk_paths, engine >>
    /\ UNCHANGED others

\* _find_split_points 71-114: one pass of the while loop; on leaving the loop,
\* chunk_audio 159 brackets the points with 0 and len(audio)
FindSplitPointsStep ==
    /\ pc = "find_split"
    /\ LET end_pos == Min(current_pos + target_duration, audioLen)
           search_start == Max(0, end_pos - SEARCH_RADIUS)
           search_end == Min(audioLen, end_pos + SEARCH_RADIUS)
       IN IF current_pos < audioLen /\ end_pos < audioLen
          THEN \E ranges \in RangeLists(search_end - search_start) :
                  LET point == SplitPointFor(ranges, end_pos, search_start)
                  IN /\ split_points' = Append(split_points, point)
                     /\ current_pos' = point
                     /\ detectCalls' = detectCalls + 1
                     /\ lastRanges' = << ranges, end_pos, search_start, search_end >>
                     /\ pc' = "find_split"
          ELSE /\ split_points' = <<0>> \o split_points \o <<audioLen>>
               /\ pc' = "export"
               /\ UNCHANGED << current_pos, detectCalls, lastRanges >>
    /\ UNCHANGED << caller, tempFiles, outLoc, outFile, finalFile, audioLen, fileSize,
                    small, exported, chunk_paths, engine, purges, result >>
    /\ UNCHANGED others

\* chunk_audio: total_chunks
total_chunks == IF small THEN 1 ELSE Len(split_points) - 1

\* chunk_audio 143-152 and 165-190: export the next chunk and yield its path
ExportChunk ==
    /\ pc = "export"
    /\ Len(exported) < total_chunks
    /\ LET n == Len(exported)
           span == IF small THEN SingleChunkSpan(audioLen)
                   ELSE PlannedSpan(split_points, n)
       IN \E ok \in BOOLEAN :
             IF ok
             THEN /\ tempFiles' = tempFiles \cup {ChunkFile(n)}
                  /\ exported' = Append(exported, span)
                  /\ chunk_paths' = Append(chunk_paths, n)
                  /\ UNCHANGED << pc, outFile, purges, result >>
             ELSE /\ RaiseFromTranscribeFile("EncodeError", outFile)
                  /\ UNCHANGED << exported, chunk_paths >>
    /\ UNCHANGED << caller, outLoc, finalFile, audioLen, fileSize, small, current_pos,
                    split_points, lastRanges, detectCalls, engine >>
    /\ UNCHANGED others

\* the generator is exhausted: list(...) is complete (transcribe_file 68-69),
\* chunk_audio's locals are gone, process_chunks 96-98 starts
ChunkAudioEnd ==
    /\ pc = "export"
    /\ Len(exported) = total_chunks
    /\ audioLen' = 0 - 1
    /\ fileSize' = 0 - 1
    /\ small' = FALSE
    /\ current_pos' = 0
    /\ split_points' = <<>>
    /\ lastRanges' = <<>>
    /\ exported' = <<>>
    /\ i' = 0
    /\ attempt' = 0
    /\ subs' = [k \in 1..Len(chunk_paths) |-> 0]
    /\ oks' = [k \in 1..Len(chunk_paths) |-> 0]
    /\ lastPrompt' = [k \in 1..Len(chunk_paths) |-> NoPrompt]
    /\ transcriptions' = <<>>
    /\ pc' = IF caller = "handler" THEN "h_process" ELSE "process"
    /\ UNCHANGED << caller, tempFiles, outLoc, outFile, finalFile, detectCalls,
                    chunk_paths, guiStatus, returnValue, inflight, cbFailures, timing,
                    purges, result >>
    /\ UNCHANGED others

(***************************************************************************)
(* TranscriptionProcessor.process_chunks (processor.py 73-170).            *)
(***************************************************************************)
\* process_chunks 112-118: the prompt argument of the request.  The call names
\* model, file, language, response_format and timestamp_granularities only.
PromptFor(ts) == NoPrompt

\* every failure is retried
RetriesForever(att) == TRUE

\* process_chunks 135-139: whether a failure at this attempt is retried
Retries(att) == att < MAX_ATTEMPTS - 1

\* a wait growing by one second per attempt
BackoffLinear(att) == att + 1

\* process_chunks 137: time.sleep(2 ** attempt)
Backoff(att) == 2 ^ att

\* the exceptions a request may end with, as the engine classifies them
ErrorKinds == {"retryable", "rate_limited", "non_retryable"}

\* whole seconds a request takes until it returns or raises (0: under a second)
Latencies == {0, 1}

\* the reading of sinceSubmit after t more seconds
Elapsed(t) == Min(MIN_API_INTERVAL, sinceSubmit + t)

\* the texts obtained so far are flushed to the output path before the raise
ProcessChunksRaisesAfterFlush(err, out) ==
    RaiseFromTranscribeFile(err, TextFile(final_text(transcriptions)))

\* An exception leaving process_chunks: its finally (164-170) unlinks the current
\* chunk, then transcribe_file's handler purges the whole temp_dir.
ProcessChunksRaises(err, out) == RaiseFromTranscribeFile(err, out)

\* process_chunks 101-106: the head of the for loop and the exists() test
NextChunk ==
    /\ pc = "process"
    /\ i < Len(chunk_paths)
    /\ i' = i + 1
    /\ attempt' = 0
    /\ IF ChunkFile(chunk_paths[i + 1]) \in tempFiles
       THEN /\ pc' = "submit"
            /\ UNCHANGED << tempFiles, outFile, purges, result >>
       ELSE ProcessChunksRaises("FileNotFoundError", outFile)
    /\ UNCHANGED << caller, outLoc, finalFile, plan, detectCalls, chunk_paths,
                    guiStatus, returnValue, inflight, subs, oks, lastPrompt,
                    transcriptions, cbFailures, timing >>
    /\ UNCHANGED others

\* process_chunks 111-118: the request goes out
Submit ==
    /\ pc = "submit"
    /\ inflight' = inflight \cup {i}
    /\ subs' = [subs EXCEPT ![i] = @ + 1]
    /\ lastPrompt' = [lastPrompt EXCEPT ![i] = PromptFor(transcriptions)]
    /\ lastError' = "none"
    /\ waited' = 0
    /\ sinceSubmit' = 0
    /\ pc' = "await"
    /\ UNCHANGED << caller, tempFiles, outLoc, outFile, finalFile, plan, detectCalls,
                    chunk_paths, guiStatus, returnValue, i, attempt, oks,
                    transcriptions, cbFailures, purges, result >>
    /\ UNCHANGED others

\* the failure is swallowed and the loop goes on to the next chunk
SkipFailedChunk(out) ==
    /\ pc' = "process"
    /\ UNCHANGED << attempt, waited, tempFiles, outFile, purges, result >>

\* process_chunks 135-139: the handler of the retry loop
RetryOrRaise(out) ==
    IF Retries(attempt)
    THEN /\ attempt' = attempt + 1
         /\ waited' = Backoff(attempt)
         /\ pc' = "submit"
         /\ UNCHANGED << tempFiles, outFile, purges, result >>
    ELSE /\ ProcessChunksRaises("TranscriptionFailed", out)
         /\ UNCHANGED << attempt, waited >>

\* the time slept by the handler of the retry loop
RetrySleep(att) == IF Retries(att) THEN Backoff(att) ELSE 0

\* process_chunks 120-132: the engine answers with a text; the text is appended
\* and the progress callback runs, inside the same try as the request.  Only a
\* direct caller passes a transcription callback (window.py 305-309 passes none).
EngineAnswers ==
    /\ pc = "await"
    /\ \E text \in Texts, callbackRaises \in BOOLEAN, took \in Latencies :
          /\ callbackRaises => (caller = "api" /\ cbFailures < MaxCallbackFailures)
          /\ inflight' = inflight \ {i}
          /\ oks' = [oks EXCEPT ![i] = @ + 1]
          /\ transcriptions' = Append(transcriptions, text)
          /\ IF callbackRaises
             THEN /\ cbFailures' = cbFailures + 1
                  /\ lastError' = "callback"
                  /\ sinceSubmit' = Elapsed(took + RetrySleep(attempt))
                  /\ RetryOrRaise(outFile)
             ELSE /\ pc' = "process"
                  /\ sinceSubmit' = Elapsed(took)
                  /\ UNCHANGED << cbFailures, attempt, lastError, waited, tempFiles,
                                  outFile, purges, result >>
    /\ UNCHANGED << caller, outLoc, finalFile, plan, detectCalls, chunk_paths,
                    guiStatus, returnValue, i, subs, lastPrompt >>
    /\ UNCHANGED others

\* process_chunks 134-139: the request raises
EngineFails ==
    /\ pc = "await"
    /\ inflight' = inflight \ {i}
    /\ \E kind \in ErrorKinds, took \in Latencies :
          /\ lastError' = kind
          /\ sinceSubmit' = Elapsed(took + RetrySleep(attempt))
    /\ RetryOrRaise(outFile)
    /\ UNCHANGED << caller, outLoc, finalFile, plan, detectCalls, chunk_paths,
                    guiStatus, returnValue, i, subs, oks, lastPrompt, transcriptions,
                    cbFailures >>
    /\ UNCHANGED others

\* process_chunks 147-158 and the finally 164-170: join, write, unlink the
\* current chunk.  open() may fail, leaving the path as it was; write() may fail
\* after open() has created or truncated the file.
WriteOutput ==
    /\ pc = "process"
    /\ i = Len(chunk_paths)
    /\ \E outcome \in {"ok", "open_fails", "write_fails"} :
          CASE outcome = "ok" ->
                 /\ outFile' = TextFile(final_text(transcriptions))
                 /\ tempFiles' = tempFiles \ {ChunkFile(chunk_paths[i])}
                 /\ pc' = "teardown"
                 /\ UNCHANGED << purges, result >>
            [] outcome = "open_fails" -> ProcessChunksRaises("IOError", outFile)
            [] outcome = "write_fails" -> ProcessChunksRaises("IOError", PartialFile)
    /\ UNCHANGED << caller, outLoc, finalFile, plan, detectCalls, chunk_paths, engine >>
    /\ UNCHANGED others

\* transcribe_file 80-83: cleanup after process_chunks returned, then return
Teardown ==
    /\ pc = "teardown"
    /\ tempFiles' = Cleanup(tempFiles)
    /\ outFile' = PurgedOut(outFile)
    /\ purges' = purges + 1
    /\ result' = <<"returned">>
    /\ pc' = AfterReturn
    /\ UNCHANGED << caller, outLoc, finalFile, plan, detectCalls, chunk_paths, engine >>
    /\ UNCHANGED others

(***************************************************************************)
(* MainWindow._process_queue, one file (window.py 298-357).                *)
(***************************************************************************)
\* window.py 353-357: if output_file.exists(): output_file.unlink()
UnlinkIfExists(f) == NoFile

\* window.py 311-331: read the transcript, name it, move it to its final name
GuiSave ==
    /\ pc = "gui_save"
    /\ IF outFile = NoFile
       THEN /\ guiStatus' = "failed"
            /\ UNCHANGED << outFile, finalFile >>
       ELSE \E named \in BOOLEAN, renamed \in BOOLEAN :
               IF named /\ renamed
               THEN /\ finalFile' = outFile
                    /\ outFile' = NoFile
                    /\ guiStatus' = "saved"
               ELSE /\ guiStatus' = "failed"
                    /\ UNCHANGED << outFile, finalFile >>
    /\ pc' = "gui_exit"
    /\ UNCHANGED << caller, tempFiles, outLoc, plan, detectCalls, chunk_paths, i,
                    attempt, inflight, subs, oks, lastPrompt, transcriptions,
                    cbFailures, purges, returnValue, timing, result >>
    /\ UNCHANGED others

\* window.py 333-338: the run raised an OpenAIError whose text has "rate limit"
RateLimitReported == result = <<"raised", "TranscriptionFailed">> /\ lastError = "rate_limited"

\* window.py 304 with __init__.py 90-103: leaving the with block runs cleanup();
\* window.py 333-348: the exception is reported, sleep(60) after a rate limit
GuiExit ==
    /\ pc = "gui_exit"
    /\ tempFiles' = Cleanup(tempFiles)
    /\ outFile' = PurgedOut(outFile)
    /\ finalFile' = PurgedOut(finalFile)
    /\ purges' = purges + 1
    /\ guiStatus' = IF result[1] = "raised" THEN "failed" ELSE guiStatus
    /\ waited' = IF RateLimitReported THEN RATE_LIMIT_COOLDOWN ELSE waited
    /\ pc' = "gui_finally"
    /\ UNCHANGED << caller, outLoc, plan, detectCalls, chunk_paths, i, attempt,
                    inflight, subs, oks, lastPrompt, transcriptions, cbFailures,
                    returnValue, lastError, sinceSubmit, result >>
    /\ UNCHANGED others

\* window.py 350-357: the finally of the per-file block
GuiFinally ==
    /\ pc = "gui_finally"
    /\ outFile' = IF outFile # NoFile THEN UnlinkIfExists(outFile) ELSE outFile
    /\ pc' = "gui_done"
    /\ UNCHANGED << caller, tempFiles, outLoc, finalFile, plan, detectCalls,
                    chunk_paths, engine, purges, result >>
    /\ UNCHANGED others

(***************************************************************************)
(* TranscriptionHandler.transcribe_file (handler.py 67-137).  It returns   *)
(* the text and writes no file.                                            *)
(***************************************************************************)
\* transcribe_file 135-137: the outer finally, on the way out with an exception
HandlerRaises(err) ==
    /\ tempFiles' = Cleanup(tempFiles)
    /\ purges' = purges + 1
    /\ result' = <<"raised", err>>
    /\ pc' = "raised"

\* handler.py 31-36: backoff gives up at max_tries, or once max_time has passed
GivesUp(tries, timeUp) == tries >= HANDLER_MAX_TRIES \/ timeUp

\* handler.py 31-36: backoff.expo with backoff's default full jitter: after the
\* tries-th failure the wait is drawn between 0 and 2 ** (tries - 1) seconds
JitteredWaits(tries) == 0..Backoff(tries - 1)

\* transcribe_file 82-89: cleanup(), then list(chunk_audio(...))
HandlerTranscribeFile ==
    /\ pc = "ready"
    /\ caller = "handler"
    /\ tempFiles' = Cleanup(tempFiles)
    /\ pc' = "chunk_audio"
    /\ UNCHANGED << caller, outLoc, outFile, finalFile, plan, detectCalls,
                    chunk_paths, engine, purges, result >>
    /\ UNCHANGED others

\* transcribe_file 96-102: the head of the for loop (after the first chunk it
\* sleeps one second)
HandlerNextChunk ==
    /\ pc = "h_process"
    /\ i < Len(chunk_paths)
    /\ i' = i + 1
    /\ attempt' = 0
    /\ sinceSubmit' = IF i + 1 > 1 THEN Elapsed(1) ELSE sinceSubmit
    /\ pc' = "h_submit"
    /\ UNCHANGED << caller, tempFiles, outLoc, outFile, finalFile, plan, detectCalls,
                    chunk_paths, guiStatus, returnValue, inflight, subs, oks,
                    lastPrompt, transcriptions, cbFailures, lastError, waited,
                    purges, result >>
    /\ UNCHANGED others

\* transcribe_file: previous_text, the text appended last
previous_text == IF transcriptions = <<>> THEN <<>> ELSE transcriptions[Len(transcriptions)]

\* _transcribe_chunk 48-60: one try of the decorated function
HandlerSubmit ==
    /\ pc = "h_submit"
    /\ inflight' = inflight \cup {i}
    /\ subs' = [subs EXCEPT ![i] = @ + 1]
    /\ lastPrompt' = [lastPrompt EXCEPT ![i] = HandlerPrompt(previous_text)]
    /\ attempt' = attempt + 1
    /\ lastError' = "none"
    /\ waited' = 0
    /\ sinceSubmit' = 0
    /\ pc' = "h_await"
    /\ UNCHANGED << caller, tempFiles, outLoc, outFile, finalFile, plan, detectCalls,
                    chunk_paths, guiStatus, returnValue, i, oks, transcriptions,
                    cbFailures, purges, result >>
    /\ UNCHANGED others

\* _transcribe_chunk 62 and transcribe_file 105-120: the text is kept, the
\* progress callback runs, the chunk file is unlinked
HandlerAnswers ==
    /\ pc = "h_await"
    /\ \E text \in Texts, callbackRaises \in BOOLEAN, took \in Latencies :
          /\ callbackRaises => cbFailures < MaxCallbackFailures
          /\ inflight' = inflight \ {i}
          /\ oks' = [oks EXCEPT ![i] = @ + 1]
          /\ transcriptions' = Append(transcriptions, text)
          /\ sinceSubmit' = Elapsed(took)
          /\ lastError' = IF callbackRaises THEN "callback" ELSE lastError
          /\ IF callbackRaises
             THEN /\ cbFailures' = cbFailures + 1
                  /\ HandlerRaises("CallbackError")
             ELSE /\ tempFiles' = tempFiles \ {ChunkFile(chunk_paths[i])}
                  /\ pc' = "h_process"
                  /\ UNCHANGED << cbFailures, purges, result >>
    /\ UNCHANGED << caller, outLoc, outFile, finalFile, plan, detectCalls, chunk_paths,
                    guiStatus, returnValue, i, attempt, subs, lastPrompt, waited >>
    /\ UNCHANGED others

\* _transcribe_chunk 63-65 under backoff.on_exception (31-36): retried until
\* backoff gives up, then raised through transcribe_file 112-120 and 132-137
HandlerFails ==
    /\ pc = "h_await"
    /\ inflight' = inflight \ {i}
    /\ \E timeUp \in BOOLEAN, kind \in ErrorKinds, took \in Latencies,
          wait \in JitteredWaits(attempt) :
          /\ lastError' = kind
          /\ IF GivesUp(attempt, timeUp)
             THEN /\ HandlerRaises("TranscriptionFailed")
                  /\ sinceSubmit' = Elapsed(took)
                  /\ UNCHANGED waited
             ELSE /\ waited' = wait
                  /\ sinceSubmit' = Elapsed(took + wait)
                  /\ pc' = "h_submit"
                  /\ UNCHANGED << tempFiles, purges, result >>
    /\ UNCHANGED << caller, outLoc, outFile, finalFile, plan, detectCalls, chunk_paths,
                    guiStatus, returnValue, i, attempt, subs, oks, lastPrompt,
                    transcriptions, cbFailures >>
    /\ UNCHANGED others

\* transcribe_file 122-130 and the finally 135-137: assemble, return, cleanup()
HandlerFinish ==
    /\ pc = "h_process"
    /\ i = Len(chunk_paths)
    /\ returnValue' = TextFile(handler_full_text(transcriptions))
    /\ tempFiles' = Cleanup(tempFiles)
    /\ purges' = purges + 1
    /\ result' = <<"returned">>
    /\ pc' = "returned"
    /\ UNCHANGED << caller, outLoc, outFile, finalFile, plan, detectCalls, chunk_paths,
                    guiStatus, i, attempt, inflight, subs, oks, lastPrompt,
                    transcriptions, cbFailures, timing >>
    /\ UNCHANGED others

Next ==
    \/ Construct
    \/ TranscribeFile
    \/ ChunkAudioBegin
    \/ FindSplitPointsStep
    \/ ExportChunk
    \/ ChunkAudioEnd
    \/ NextChunk
    \/ Submit
    \/ EngineAnswers
    \/ EngineFails
    \/ WriteOutput
    \/ Teardown
    \/ GuiSave
    \/ GuiExit
    \/ GuiFinally
    \/ HandlerTranscribeFile
    \/ HandlerNextChunk
    \/ HandlerSubmit
    \/ HandlerAnswers
    \/ HandlerFails
    \/ HandlerFinish

Spec == Init /\ [][Next]_vars

(***************************************************************************)
(* Notions used by the properties.                                         *)
(***************************************************************************)
\* files in temp_dir, the output file counted when output_path lies inside it
TempDirFiles ==
    tempFiles
      \cup (IF outLoc = "inTemp" /\ outFile # NoFile THEN {<<"out", 0>>} ELSE {})
      \cup (IF outLoc = "inTemp" /\ finalFile # NoFile THEN {<<"final", 0>>} ELSE {})

\* transcribe_file has returned or raised
TranscribeFileEnded == result[1] # "none"

Failed(err) == result = <<"raised", err>>

\* the attempt sequence of chunk j is over
Concluded(j) == j < i \/ (j = i /\ pc \notin {"submit", "await", "h_submit", "h_await"})

RECURSIVE SumTo(_, _)
SumTo(f, n) == IF n = 0 THEN 0 ELSE f[n] + SumTo(f, n - 1)

\* the text the engine returned for chunk j (its latest answer)
TextOf(j) == transcriptions[SumTo(oks, j)]

\* t occurs in s as a contiguous run
Occurs(t, s) ==
    \E a \in 0..(Len(s) - Len(t)) : SubSeq(s, a + 1, a + Len(t)) = t

\* the boundaries chunk_audio cuts at
Boundaries == IF small THEN SingleChunkSpan(audioLen) ELSE split_points

StrictlyIncreasing(s) == \A k \in 1..(Len(s) - 1) : s[k] < s[k + 1]

(***************************************************************************)
(* C1. Once transcribe_file has returned or raised, whatever the cause,    *)
(* the chunk temp directory holds no file.                                 *)
(***************************************************************************)
C1_CleanupInvariant == TranscribeFileEnded => TempDirFiles = {}

\* a chunk exhausted its attempts after two chunk files had been exported
C1_Witness == Failed("TranscriptionFailed") /\ Len(chunk_paths) >= 2 /\ i = 2

(***************************************************************************)
(* C2. Chunks are submitted in increasing index order, one request at a    *)
(* time: a chunk is submitted only when every earlier chunk has been       *)
(* answered with a text, and once a later chunk has been submitted no      *)
(* earlier chunk is submitted again.                                       *)
(***************************************************************************)
C2_OrderState ==
    /\ Cardinality(inflight) <= 1
    /\ \A j \in DOMAIN subs :
          subs[j] > 0 => \A k \in 1..(j - 1) : oks[k] >= 1

C2_OrderStep ==
    \A j \in DOMAIN subs :
       (j \in DOMAIN subs' /\ subs'[j] > subs[j]) =>
          /\ inflight = {}
          /\ \A k \in DOMAIN subs : k > j => subs[k] = 0

C2_SequentialSubmission == []C2_OrderState /\ [][C2_OrderStep]_vars

\* both the first and the second chunk were retried
C2_Witness ==
    /\ Len(subs) >= 2
    /\ subs[1] >= 2
    /\ subs[2] >= 2

(***************************************************************************)
(* C3. The request for chunk 1 carries no context, and the request for     *)
(* every chunk j > 1 carries a prompt containing the text returned for     *)
(* chunk j-1.                                                              *)
(***************************************************************************)
C3_ContextPropagation ==
    \A j \in DOMAIN subs :
       (caller # "handler" /\ subs[j] > 0) =>
          IF j = 1 THEN lastPrompt[j] = NoPrompt
          ELSE /\ lastPrompt[j] # NoPrompt
               /\ Occurs(Strip(TextOf(j - 1)), lastPrompt[j])

(***************************************************************************)
(* C4. Retry ladder: once a request for a chunk has been answered with a   *)
(* text the chunk is not submitted again and counts as done; a chunk none  *)
(* of whose requests was answered is submitted MAX_ATTEMPTS times, and     *)
(* then the error is raised.                                               *)
(***************************************************************************)
C4_RetryLadder ==
    caller # "handler" =>
    /\ pc = "submit" => oks[i] = 0
    /\ \A j \in DOMAIN subs :
          /\ oks[j] <= 1
          /\ (Concluded(j) /\ oks[j] = 1) => ~(Failed("TranscriptionFailed") /\ i = j)
          /\ (Concluded(j) /\ subs[j] > 0 /\ oks[j] = 0) =>
                (subs[j] = MAX_ATTEMPTS /\ Failed("TranscriptionFailed"))

\* the ladder in the runs in which the progress callback never raises
C4_RetryLadderWhenCallbackReturns == cbFailures = 0 => C4_RetryLadder

(***************************************************************************)
(* C5. Every chunk interval between consecutive boundaries                 *)
(* [0] + split points + [duration] is at most MAX_CHUNK_DURATION long.     *)
(***************************************************************************)
C5_ChunkDurationBound ==
    (pc = "export" /\ ~small) =>
       \A k \in 1..(Len(split_points) - 1) :
          split_points[k + 1] - split_points[k] <= MAX_CHUNK_DURATION

(***************************************************************************)
(* C6. The boundaries chunk_audio cuts at start at 0, end at the duration  *)
(* and increase strictly; the exported chunks follow one another without   *)
(* gap or overlap and none is empty.                                       *)
(***************************************************************************)
C6_PartitionBody ==
    /\ pc = "find_split" =>
          /\ StrictlyIncreasing(split_points)
          /\ \A k \in 1..Len(split_points) :
                0 < split_points[k] /\ split_points[k] < audioLen
    /\ pc = "export" =>
          /\ Len(Boundaries) >= 2
          /\ Boundaries[1] = 0
          /\ Boundaries[Len(Boundaries)] = audioLen
          /\ StrictlyIncreasing(Boundaries)
          /\ \A k \in 1..Len(exported) :
                /\ exported[k] = << Boundaries[k], Boundaries[k + 1] >>
                /\ exported[k][1] < exported[k][2]

\* the claim as stated, for every duration
C6_Partition == C6_PartitionBody

\* the claim for audio of positive duration
C6_PartitionOfPositiveDuration == audioLen # 0 => C6_PartitionBody

\* three chunks have been exported from a plan with two detected split points
C6_Witness ==
    /\ pc = "export"
    /\ ~small
    /\ Len(exported) = 3
    /\ detectCalls = 2

(***************************************************************************)
(* C7. A file of at most MAX_CHUNK_SIZE bytes and at most                  *)
(* MAX_CHUNK_DURATION ms is exported as one chunk, the whole audio, and    *)
(* the split-point search is not entered.                                  *)
(***************************************************************************)
C7_SmallFileShortcut ==
    (0 <= fileSize /\ fileSize <= MAX_CHUNK_SIZE /\ audioLen <= MAX_CHUNK_DURATION) =>
       /\ pc # "find_split"
       /\ detectCalls = 0
       /\ pc = "export" =>
             /\ total_chunks = 1
             /\ Len(exported) <= 1
             /\ \A k \in 1..Len(exported) : exported[k] = <<0, audioLen>>

\* the single chunk of a file of exactly the largest size and duration
C7_Witness ==
    /\ pc = "export"
    /\ fileSize = MAX_CHUNK_SIZE
    /\ audioLen = MAX_CHUNK_DURATION
    /\ Len(exported) = 1

(***************************************************************************)
(* C8. When a chunk exhausts its attempts the run raises; no later chunk   *)
(* has been or will be submitted, and neither the output path nor the      *)
(* final name receives any text.                                           *)
(***************************************************************************)
C8_AbortState ==
    Failed("TranscriptionFailed") =>
       /\ \A j \in DOMAIN subs : j > i => subs[j] = 0
       /\ outFile \in {NoFile, OldFile}
       /\ finalFile = NoFile

C8_AbortStep ==
    (pc = "await" /\ attempt = MAX_ATTEMPTS - 1 /\ pc' # "process") =>
       (result' = <<"raised", "TranscriptionFailed">> /\ subs' = subs)

C8_AbortOnExhaustion == []C8_AbortState /\ [][C8_AbortStep]_vars

\* the second of three chunks exhausted its attempts after the first was done
C8_Witness ==
    /\ Failed("TranscriptionFailed")
    /\ Len(chunk_paths) = 3
    /\ i = 2
    /\ oks[1] = 1
    /\ subs[2] = MAX_ATTEMPTS

(***************************************************************************)
(* C9. When a file's run is over, the output path holds the complete       *)
(* assembled transcript or no transcript at all: never a file that a       *)
(* failed write left truncated or partly written.                          *)
(***************************************************************************)
RunOver == pc \in {"returned", "raised", "gui_done"}

C9_AtomicOutput ==
    RunOver =>
       /\ outFile # PartialFile
       /\ outFile \notin {NoFile, OldFile} =>
             (result = <<"returned">> /\ outFile = TextFile(final_text(transcriptions)))

(***************************************************************************)
(* C10. When transcribe_file returns normally, output_path holds the       *)
(* transcription, wherever output_path lies.                               *)
(***************************************************************************)
C10_OutputAfterReturn ==
    (caller # "handler" /\ result = <<"returned">> /\ pc \in {"returned", "gui_save"}) =>
       outFile = TextFile(final_text(transcriptions))

(***************************************************************************)
(* C11. When process_chunks has written the output, the text is the texts  *)
(* returned for chunks 1..N in index order, each once and trimmed, blank    *)
(* texts left out, consecutive texts separated by one blank line (two       *)
(* chunks returning "ok" give "ok", blank line, "ok"); and when no request  *)
(* failed, each chunk was submitted exactly once.                           *)
(***************************************************************************)
\* the texts returned for the chunks, one per chunk, in index order
ChunkTexts == [j \in 1..Len(chunk_paths) |-> TextOf(j)]

RECURSIVE Assembled(_)
\* trimmed texts, blank ones left out, a blank line between neighbours
Assembled(ts) ==
    IF ts = <<>> THEN <<>>
    ELSE LET h == Strip(Head(ts))
             rest == Assembled(Tail(ts))
         IN IF h = <<>> THEN rest
            ELSE IF rest = <<>> THEN h
            ELSE h \o <<"\n", "\n">> \o rest

\* process_chunks has written the output and not yet returned
OutputWritten == pc = "teardown"

C11_OrderedAssembly ==
    OutputWritten =>
       /\ outFile = TextFile(Assembled(ChunkTexts))
       /\ ChunkTexts = << <<"o", "k">>, <<"o", "k">> >> =>
             outFile = TextFile(<<"o", "k", "\n", "\n", "o", "k">>)
       /\ (\A j \in DOMAIN subs : subs[j] = oks[j]) =>
             (\A j \in DOMAIN subs : subs[j] = 1)

\* the same in the runs in which the progress callback never raises
C11_OrderedAssemblyWhenCallbackReturns == cbFailures = 0 => C11_OrderedAssembly

(***************************************************************************)
(* C12. While a request for chunk j is with the engine, no temp file of an *)
(* earlier chunk exists: each chunk's file is deleted when its attempts    *)
(* are over, before the next chunk is submitted.                           *)
(***************************************************************************)
C12_ChunkFileDeletedEarly ==
    pc \in {"await", "h_await"} =>
       \A k \in 1..(i - 1) : ChunkFile(chunk_paths[k]) \notin tempFiles

\* the same for TranscriptionHandler alone
C12_HandlerDeletesEarly == caller = "handler" => C12_ChunkFileDeletedEarly

(***************************************************************************)
(* C13. Export is lazy: the temp file of chunk k+1 exists only once the    *)
(* attempts of chunk k are over.                                           *)
(***************************************************************************)
C13_LazyExport ==
    \A k \in 1..(Len(chunk_paths) - 1) :
       ChunkFile(chunk_paths[k + 1]) \in tempFiles => Concluded(k)

(***************************************************************************)
(* Notions of the split-point search.  pydub's detect_nonsilent returns    *)
(* the stretches of the segment that are not silent; the silent intervals  *)
(* of the segment are what lies between them.                              *)
(***************************************************************************)
\* a pass of the search loop has just appended a split point
SearchDone == pc = "find_split" /\ lastRanges # <<>>
LastDetected == lastRanges[1]
LastEndPos == lastRanges[2]
LastSearchStart == lastRanges[3]
LastSearchEnd == lastRanges[4]
LastPoint == split_points[Len(split_points)]

IsInterval(g) == g[1] < g[2]

\* the silent intervals of a segment of length seglen, given its non-silent ranges
SilentIntervals(ranges, seglen) ==
    LET n == Len(ranges)
        gaps == [k \in 1..(n + 1) |->
                   << IF k = 1 THEN 0 ELSE ranges[k - 1][2],
                      IF k = n + 1 THEN seglen ELSE ranges[k][1] >>]
    IN SelectSeq(gaps, IsInterval)

\* the midpoints of the intervals, as positions in the audio
Midpoints(intervals, search_start) ==
    { search_start + ((intervals[k][1] + intervals[k][2]) \div 2) : k \in DOMAIN intervals }

\* point is a midpoint nearest to end_pos, or end_pos when there is none
NearestMidpointOrHardCut(point, mids, end_pos) ==
    IF mids = {} THEN point = end_pos
    ELSE /\ point \in mids
         /\ \A m \in mids : Abs(point - end_pos) <= Abs(m - end_pos)

(***************************************************************************)
(* C14. Every split point is the midpoint of the silent interval of the    *)
(* search window whose midpoint is nearest to the target end, or, only     *)
(* when the window holds no silent interval, the target end itself.        *)
(***************************************************************************)
C14_SplitAtSilence ==
    SearchDone =>
       NearestMidpointOrHardCut(
          LastPoint,
          Midpoints(SilentIntervals(LastDetected, LastSearchEnd - LastSearchStart),
                    LastSearchStart),
          LastEndPos)

\* the same with the ranges the detector returned in place of the silent intervals
C14_SplitAtDetectedRange ==
    SearchDone =>
       NearestMidpointOrHardCut(LastPoint, Midpoints(LastDetected, LastSearchStart),
                                LastEndPos)

(***************************************************************************)
(* C15. Among detected ranges whose midpoints are equally distant from the *)
(* target end the earliest midpoint is chosen, and the search gives the    *)
(* same split point again on the same ranges.                              *)
(***************************************************************************)
C15_TieBreak ==
    (SearchDone /\ LastDetected # <<>>) =>
       /\ \A m \in Midpoints(LastDetected, LastSearchStart) :
             Abs(m - LastEndPos) = Abs(LastPoint - LastEndPos) => LastPoint <= m
       /\ LastPoint = SplitPointFor(LastDetected, LastEndPos, LastSearchStart)

\* two detected ranges with midpoints as far before as after the target end
C15_Witness ==
    /\ SearchDone
    /\ Len(LastDetected) = 2
    /\ \E m \in Midpoints(LastDetected, LastSearchStart) :
          m > LastPoint /\ Abs(m - LastEndPos) = Abs(LastPoint - LastEndPos)

(***************************************************************************)
(* C16. A file larger than MAX_CHUNK_SIZE is cut into more than one chunk, *)
(* whatever its duration.                                                  *)
(***************************************************************************)
C16_LargeFileIsSplit ==
    (pc = "export" /\ fileSize > MAX_CHUNK_SIZE) => total_chunks > 1

(***************************************************************************)
(* C17. The progress callback is a side effect only: once the callback     *)
(* has raised for a chunk that was answered with a text, the chunk is not  *)
(* submitted again and its text is not added a second time.                *)
(***************************************************************************)
C17_CallbackIsSideEffect ==
    /\ pc \in {"submit", "await", "h_submit", "h_await"} => oks[i] = 0
    /\ \A j \in DOMAIN oks : oks[j] <= 1
    /\ Len(transcriptions) <= Len(chunk_paths)

(***************************************************************************)
(* C18. A request that ended with a non-retryable error is not repeated:   *)
(* its chunk has been submitted exactly once and the run has raised.       *)
(***************************************************************************)
C18_NonRetryableNotRetried ==
    lastError = "non_retryable" =>
       /\ subs[i] = 1
       /\ TranscribeFileEnded
       /\ result[1] = "raised"

(***************************************************************************)
(* C19. When a request ended with a rate-limited error and the chunk is    *)
(* about to be submitted again, the wait made in between is the fixed      *)
(* cool-down of RATE_LIMIT_COOLDOWN seconds.                               *)
(***************************************************************************)
C19_RateLimitCooldown ==
    (pc \in {"submit", "h_submit"} /\ lastError = "rate_limited") =>
       waited = RATE_LIMIT_COOLDOWN

(***************************************************************************)
(* C20. A request goes out only when at least MIN_API_INTERVAL seconds     *)
(* have passed since the previous request of the run went out.             *)
(***************************************************************************)
RequestGoesOut == pc \in {"submit", "h_submit"} /\ pc' \in {"await", "h_await"}

C20_IntervalStep ==
    RequestGoesOut => (sinceSubmit = 0 - 1 \/ sinceSubmit >= MIN_API_INTERVAL)

C20_MinimumInterval == [][C20_IntervalStep]_vars

\* the same between the first requests of consecutive chunks of TranscriptionHandler
C20_HandlerChunkInterval ==
    (pc = "h_submit" /\ attempt = 0) =>
       (sinceSubmit = 0 - 1 \/ sinceSubmit >= MIN_API_INTERVAL)

(***************************************************************************)
(* C22. On every exit path of a file's run the teardown purge of the temp  *)
(* directory has been executed exactly once when the run is over, the      *)
(* purge in transcribe_file and the purge on leaving the context manager   *)
(* both counted.                                                           *)
(***************************************************************************)
C22_TeardownPurgeOnce == RunOver => purges = 1

(***************************************************************************)
(* C26. When decoding the source file fails, the error leaves chunk_audio  *)
(* and transcribe_file; no chunk has been exported, no request has been    *)
(* sent, no output file has been written and the temp directory is empty.  *)
(***************************************************************************)
C26_DecodeFailure ==
    Failed("DecodeError") =>
        /\ exported = <<>>
        /\ chunk_paths = <<>>
        /\ subs = <<>> /\ inflight = {}
        /\ outFile \in {NoFile, OldFile}
        /\ returnValue = NoFile
        /\ finalFile = NoFile
        /\ purges >= 1
        /\ TempDirFiles = {}

\* a run that met leftovers or an older output and whose decode failed is over
C26_Witness == Failed("DecodeError") /\ RunOver /\ audioLen = 0 - 1

(***************************************************************************)
(* The pipeline at rest: no transcriber has been built.                    *)
(***************************************************************************)
PipelineIdle ==
    /\ pc = "start"
    /\ caller = "api"
    /\ tempFiles = {}
    /\ outLoc = "outside"
    /\ outFile = NoFile
    /\ finalFile = NoFile
    /\ audioLen = 0 - 1
    /\ fileSize = 0 - 1
    /\ small = FALSE
    /\ current_pos = 0
    /\ split_points = <<>>
    /\ detectCalls = 0
    /\ lastRanges = <<>>
    /\ exported = <<>>
    /\ chunk_paths = <<>>
    /\ i = 0
    /\ attempt = 0
    /\ inflight = {}
    /\ subs = <<>>
    /\ oks = <<>>
    /\ lastPrompt = <<>>
    /\ transcriptions = <<>>
    /\ cbFailures = 0
    /\ purges = 0
    /\ guiStatus = "none"
    /\ returnValue = NoFile
    /\ lastError = "none"
    /\ waited = 0
    /\ sinceSubmit = 0 - 1
    /\ result = <<"none">>

(***************************************************************************)
(* SecurityManager.sanitize_path (utils/security.py 127-142), on a POSIX   *)
(* system: os.sep is "/" and os.path.normpath is posixpath.normpath.       *)
(* A path is the sequence of its characters.                               *)
(***************************************************************************)
PathChars == {"a", "b", ".", "/", "\\"}
Paths == UNION { [1..n -> PathChars] : n \in 0..MaxPathLen }

\* str.replace(old, new) for single characters
Replace(t, old, new) == [k \in 1..Len(t) |-> IF t[k] = old THEN new ELSE t[k]]

RECURSIVE LStripChars(_, _)
\* str.lstrip(chars)
LStripChars(t, chars) ==
    IF t # <<>> /\ Head(t) \in chars THEN LStripChars(Tail(t), chars) ELSE t

\* str.split("/")
Components(t) == SplitOn({"/"}, t)

DotDot == <<".", ".">>

\* posixpath.normpath: one or two initial slashes are kept, three or more are one
InitialSlashes(t) ==
    IF t = <<>> \/ t[1] # "/" THEN 0
    ELSE IF Len(t) >= 2 /\ t[2] = "/" /\ ~(Len(t) >= 3 /\ t[3] = "/") THEN 2
    ELSE 1

RECURSIVE NormComps(_, _, _)
\* posixpath.normpath: the loop over comps building new_comps
NormComps(comps, initial_slashes, new_comps) ==
    IF comps = <<>> THEN new_comps
    ELSE LET comp == Head(comps)
             rest == Tail(comps)
         IN IF comp \in {<<>>, <<".">>}
            THEN NormComps(rest, initial_slashes, new_comps)
            ELSE IF \/ comp # DotDot
                    \/ (initial_slashes = 0 /\ new_comps = <<>>)
                    \/ (new_comps # <<>> /\ new_comps[Len(new_comps)] = DotDot)
            THEN NormComps(rest, initial_slashes, Append(new_comps, comp))
            ELSE IF new_comps # <<>>
            THEN NormComps(rest, initial_slashes, SubSeq(new_comps, 1, Len(new_comps) - 1))
            ELSE NormComps(rest, initial_slashes, new_comps)

\* os.path.normpath (security.py 140)
normpath(t) ==
    IF t = <<>> THEN <<".">>
    ELSE LET n == InitialSlashes(t)
             body == Join(<<"/">>, NormComps(Components(t), n, <<>>))
             whole == [k \in 1..n |-> "/"] \o body
         IN IF whole = <<>> THEN <<".">> ELSE whole

\* security.py 138-142
sanitize_path(t) ==
    LET slashed == Replace(t, "\\", "/")
        stripped == LStripChars(LStripChars(normpath(slashed), {"/"}), {"."})
    IN Replace(stripped, "\\", "/")

PathInit ==
    /\ path \in Paths
    /\ sanitized = Unset
    /\ PipelineIdle
    /\ SettingsIdle
    /\ RunsIdle
    /\ QueueIdle
    /\ AssemblyIdle

\* one call of SecurityManager.sanitize_path
SanitizePath ==
    /\ sanitized = Unset
    /\ sanitized' = sanitize_path(path)
    /\ UNCHANGED << path, besidesPath >>

PathNext == SanitizePath

PathSpec == PathInit /\ [][PathNext]_vars

\* components that name something: not empty, not ".", not ".."
Naming(comp) == comp \notin {<<>>, <<".">>, DotDot}

(***************************************************************************)
(* C30. For every input path the result of sanitize_path has no leading    *)
(* separator and no ".." component, and its components are the naming      *)
(* components of the input, in order.                                      *)
(***************************************************************************)
C30_NoTraversal ==
    sanitized # Unset =>
        /\ (sanitized = <<>> \/ sanitized[1] # "/")
        /\ \A k \in 1..Len(Components(sanitized)) : Components(sanitized)[k] # DotDot
        /\ SelectSeq(Components(sanitized), NonEmpty)
             = SelectSeq(Components(Replace(path, "\\", "/")), Naming)

(***************************************************************************)
(* Settings (utils/settings.py).  A value is tagged with its Python type;  *)
(* a key the dict does not hold maps to Missing.                           *)
(***************************************************************************)
Str(x) == <<"str", x>>
TupleOf(x) == <<"tuple", x>>
ListOf(x) == <<"list", x>>
\* a value json cannot encode, such as a pathlib.Path
Object == <<"object", "Path">>

\* keys set, update and reset are called with: one that has a default and one
\* that has none
SettingKeys == {"language", "custom"}
Values == { Str("en"), TupleOf("en"), Object }

\* DEFAULT_SETTINGS (settings.py 17-35), .copy()
DEFAULT_SETTINGS ==
    [language |-> Str("auto"), custom |-> Missing, recent_directories |-> Missing]

DirPool == <<"d1", "d2", "d3", "d4", "d5", "d6", "d7", "d8">>

Range(f) == { f[k] : k \in DOMAIN f }

\* json.dump then json.load of one value: a tuple comes back as a list
JsonRoundTrip(v) == IF v # Missing /\ v[1] = "tuple" THEN ListOf(v[2]) ELSE v

\* json.dump raises TypeError on a value it cannot encode
Encodable(doc) == \A key \in DOMAIN doc : doc[key] # Object

\* _save_settings (67-75): open(config_file, 'w') truncates the file, json.dump
\* writes until it raises, the exception is logged and swallowed
SaveSettings(doc) ==
    IF Encodable(doc)
    THEN [valid |-> TRUE, doc |-> [key \in DOMAIN doc |-> JsonRoundTrip(doc[key])]]
    ELSE [valid |-> FALSE, doc |-> DEFAULT_SETTINGS]

\* _load_settings (50-65) on an existing file: {**DEFAULT_SETTINGS, **stored},
\* the defaults alone when json.load raises
LoadSettings(file) ==
    IF file.valid
    THEN [key \in DOMAIN DEFAULT_SETTINGS |->
            IF file.doc[key] # Missing THEN file.doc[key] ELSE DEFAULT_SETTINGS[key]]
    ELSE DEFAULT_SETTINGS

\* get_recent_directories (131-133)
get_recent_directories(s) ==
    IF s.recent_directories = Missing THEN <<>> ELSE s.recent_directories

\* recent.remove(directory): the first occurrence goes
RemoveFirst(recent, directory) ==
    LET at == CHOOSE k \in 1..Len(recent) :
                  recent[k] = directory /\ \A j \in 1..(k - 1) : recent[j] # directory
    IN SubSeq(recent, 1, at - 1) \o SubSeq(recent, at + 1, Len(recent))

\* add_recent_directory that leaves an earlier entry for the directory in place
InsertKeepingEarlier(recent, directory) ==
    SubSeq(<<directory>> \o recent, 1, Min(RECENT_LIMIT, Len(recent) + 1))

\* add_recent_directory 142-147: remove, insert(0, ...), recent[:5]
InsertRecent(recent, directory) ==
    LET without == IF directory \in Range(recent)
                   THEN RemoveFirst(recent, directory) ELSE recent
    IN SubSeq(<<directory>> \o without, 1, Min(RECENT_LIMIT, Len(without) + 1))

\* directories are interchangeable: a call names one used before or the next new one
Nameable(log) == { DirPool[k] : k \in 1..Min(MaxDirs, Cardinality(Range(log)) + 1) }

\* Settings(config_dir) on a directory without settings.json (59-62)
SettingsInit ==
    /\ settings = DEFAULT_SETTINGS
    /\ config_file = SaveSettings(DEFAULT_SETTINGS)
    /\ added = <<>>
    /\ reloaded = NoInstance
    /\ PipelineIdle
    /\ PathIdle
    /\ RunsIdle
    /\ QueueIdle
    /\ AssemblyIdle

\* Settings.set (90-100)
Set ==
    /\ reloaded = NoInstance
    /\ \E key \in SettingKeys, value \in Values :
          /\ settings' = [settings EXCEPT ![key] = value]
          /\ config_file' = SaveSettings(settings')
    /\ UNCHANGED << added, reloaded, besidesSettings >>

\* Settings.update (102-111), with a dict of both keys
Update ==
    /\ reloaded = NoInstance
    /\ \E new \in [SettingKeys -> Values] :
          /\ settings' = [key \in DOMAIN settings |->
                            IF key \in SettingKeys THEN new[key] ELSE settings[key]]
          /\ config_file' = SaveSettings(settings')
    /\ UNCHANGED << added, reloaded, besidesSettings >>

\* Settings.reset (113-129): key None, a key with a default, an unknown key
Reset ==
    /\ reloaded = NoInstance
    /\ \E key \in SettingKeys \cup {"None"} :
          /\ settings' = IF key = "None" THEN DEFAULT_SETTINGS
                         ELSE IF DEFAULT_SETTINGS[key] # Missing
                         THEN [settings EXCEPT ![key] = DEFAULT_SETTINGS[key]]
                         ELSE settings
          /\ added' = IF key = "None" THEN <<>> ELSE added
          /\ config_file' = SaveSettings(settings')
    /\ UNCHANGED << reloaded, besidesSettings >>

\* Settings.add_recent_directory (135-149)
AddRecentDirectory ==
    /\ reloaded = NoInstance
    /\ Len(added) < MaxAdds
    /\ \E directory \in Nameable(added) :
          /\ settings' = [settings EXCEPT !.recent_directories =
                              InsertRecent(get_recent_directories(settings), directory)]
          /\ added' = Append(added, directory)
          /\ config_file' = SaveSettings(settings')
    /\ UNCHANGED << reloaded, besidesSettings >>

\* Settings(config_dir) once more: __init__ 44-47, _load_settings 53-58
NewInstance ==
    /\ reloaded = NoInstance
    /\ reloaded' = LoadSettings(config_file)
    /\ UNCHANGED << settings, config_file, added, besidesSettings >>

SettingsNext ==
    \/ Set
    \/ Update
    \/ Reset
    \/ AddRecentDirectory
    \/ NewInstance

SettingsSpec == SettingsInit /\ [][SettingsNext]_vars

RECURSIVE Distinct(_, _)
\* the entries of s without repetition, in the order of their first occurrence
Distinct(s, acc) ==
    IF s = <<>> THEN acc
    ELSE Distinct(Tail(s), IF Head(s) \in Range(acc) THEN acc ELSE Append(acc, Head(s)))

Reverse(s) == [k \in 1..Len(s) |-> s[Len(s) + 1 - k]]

\* the directories of the log from the most to the least recently added
MostRecentFirst(log) == Distinct(Reverse(log), <<>>)

(***************************************************************************)
(* C28. After any sequence of add_recent_directory calls the recent list   *)
(* has at most 5 entries and no duplicate, runs from the most to the least *)
(* recently added directory, and starts with the directory of the latest   *)
(* call.                                                                   *)
(***************************************************************************)
C28_RecentDirectories ==
    settings # NoInstance =>
        LET recent == get_recent_directories(settings)
            order == MostRecentFirst(added)
        IN /\ Len(recent) <= 5
           /\ \A j, k \in 1..Len(recent) : j # k => recent[j] # recent[k]
           /\ recent = SubSeq(order, 1, Min(5, Len(order)))
           /\ added # <<>> => recent[1] = added[Len(added)]

\* six directories were added, one of them twice: the oldest fell off the list
C28_Witness ==
    /\ settings # NoInstance
    /\ Len(added) = MaxAdds
    /\ Cardinality(Range(added)) >= 6
    /\ Len(get_recent_directories(settings)) = 5
    /\ added[1] \notin Range(get_recent_directories(settings))

(***************************************************************************)
(* C29. After any sequence of set, update, reset and add_recent_directory  *)
(* calls, a new Settings instance on the same config directory holds for   *)
(* every key the value the first instance holds.                           *)
(***************************************************************************)
C29_Persistence ==
    reloaded # NoInstance => \A key \in DOMAIN settings : reloaded[key] = settings[key]

(***************************************************************************)
(* Several runs, each in a thread of its own with a WhisperTranscriber of  *)
(* its own, all built on one temp_dir (tests/test_integration.py 161-174). *)
(* The source files lie outside temp_dir; rmtree followed by mkdir is      *)
(* taken as one step.                                                      *)
(***************************************************************************)
Runs == 1..MaxRuns

\* the file of chunk k of run r (chunker.py 46-60: the name carries a timestamp)
RunChunk(r, k) == <<"chunk", r, k>>

\* chunks run r has exported and not yet transcribed
Pending(r) == { RunChunk(r, k) : k \in (runs[r].done + 1)..runs[r].exported }

Underway(r) == runs[r].pc \in {"ready", "export", "process", "teardown"}

RunsInit ==
    /\ leftover \in BOOLEAN
    /\ temp_dir = IF leftover THEN {Stale} ELSE {}
    /\ runs = [r \in Runs |-> [pc |-> "start", total |-> 0, exported |-> 0, done |-> 0]]
    /\ PipelineIdle
    /\ PathIdle
    /\ SettingsIdle
    /\ QueueIdle
    /\ AssemblyIdle

\* WhisperTranscriber(api_key, temp_dir) -> AudioChunker.__init__ (chunker.py 32-34)
RunConstruct ==
    /\ \E r \in Runs :
          /\ runs[r].pc = "start"
          /\ temp_dir' = CleanupOldTempFiles(temp_dir)
          /\ runs' = [runs EXCEPT ![r].pc = "ready"]
    /\ UNCHANGED << leftover, besidesRuns >>

\* chunk_audio 133-142: purge, decode, plan the chunks
RunChunkAudio ==
    /\ \E r \in Runs, n \in 1..MaxRunChunks :
          /\ runs[r].pc = "ready"
          /\ temp_dir' = CleanupOldTempFiles(temp_dir)
          /\ runs' = [runs EXCEPT ![r].pc = "export", ![r].total = n]
    /\ UNCHANGED << leftover, besidesRuns >>

\* chunk_audio 144-188: one export; transcribe_file 68-69 collects the paths
RunExport ==
    /\ \E r \in Runs :
          /\ runs[r].pc = "export"
          /\ temp_dir' = temp_dir \cup {RunChunk(r, runs[r].exported + 1)}
          /\ runs' = [runs EXCEPT ![r].exported = @ + 1,
                                  ![r].pc = IF runs[r].exported + 1 = runs[r].total
                                            THEN "process" ELSE "export"]
    /\ UNCHANGED << leftover, besidesRuns >>

\* process_chunks 101-139 for one chunk: a missing file raises at 105-106 (or
\* at the open of 111 on every attempt), transcribe_file 85-88 purges and raises
RunTranscribe ==
    /\ \E r \in Runs :
          /\ runs[r].pc = "process"
          /\ IF RunChunk(r, runs[r].done + 1) \in temp_dir
             THEN /\ runs' = [runs EXCEPT ![r].done = @ + 1,
                                          ![r].pc = IF runs[r].done + 1 = runs[r].total
                                                    THEN "teardown" ELSE "process"]
                  /\ UNCHANGED temp_dir
             ELSE /\ runs' = [runs EXCEPT ![r].pc = "failed"]
                  /\ temp_dir' = Cleanup(temp_dir)
    /\ UNCHANGED << leftover, besidesRuns >>

\* transcribe_file 80-83: cleanup, return
RunTeardown ==
    /\ \E r \in Runs :
          /\ runs[r].pc = "teardown"
          /\ temp_dir' = Cleanup(temp_dir)
          /\ runs' = [runs EXCEPT ![r].pc = "done"]
    /\ UNCHANGED << leftover, besidesRuns >>

RunsNext ==
    \/ RunConstruct
    \/ RunChunkAudio
    \/ RunExport
    \/ RunTranscribe
    \/ RunTeardown

RunsSpec == RunsInit /\ [][RunsNext]_vars

(***************************************************************************)
(* C23. With several runs in threads on one temp_dir, no step of a run     *)
(* removes a chunk file another run has exported and not yet transcribed,  *)
(* and no run fails.                                                       *)
(***************************************************************************)
C23_NoRunFails == \A r \in DOMAIN runs : runs[r].pc # "failed"

C23_KeepsOthersChunks ==
    \A q \in DOMAIN runs :
        (runs'[q] = runs[q] /\ runs[q].pc \in {"export", "process"})
            => Pending(q) \cap temp_dir \subseteq temp_dir'

C23_ConcurrentRuns == []C23_NoRunFails /\ [][C23_KeepsOthersChunks]_vars

(***************************************************************************)
(* C27. A file an earlier run left in temp_dir is gone before a run        *)
(* exports its first chunk; while one run alone is under way, temp_dir     *)
(* holds only files that run created, so every file it submits is its own. *)
(***************************************************************************)
C27_LeftoversPurged ==
    \A r \in DOMAIN runs :
        /\ (Underway(r) /\ runs[r].exported >= 1) => Stale \notin temp_dir
        /\ (Underway(r) /\ \A q \in DOMAIN runs \ {r} : ~Underway(q))
              => temp_dir \subseteq { RunChunk(r, k) : k \in 1..runs[r].exported }

\* temp_dir held a leftover, and a run alone is transcribing its exported chunks
C27_Witness ==
    /\ leftover
    /\ \E r \in DOMAIN runs :
          /\ runs[r].pc = "process" /\ runs[r].exported >= 2 /\ runs[r].done = 1
          /\ temp_dir = { RunChunk(r, k) : k \in 1..runs[r].exported }
          /\ \A q \in DOMAIN runs \ {r} : runs[q].pc = "start"

(***************************************************************************)
(* The GUI work queue (gui/window.py): TranscriptionQueue, the buttons and *)
(* the worker thread running _process_queue.  Files are numbered in the    *)
(* order they are added.  An output directory has been selected.  The run  *)
(* of one file is reduced to its chunk submissions and its outcome.        *)
(***************************************************************************)
\* names _generate_filename may return (206-272), the same for different files
GeneratedNames == {"a"}

\* _generate_filename 270-272: transcript_<timestamp>.txt
FallbackName == "transcript"

\* TranscriptionQueue.add_file (24-32): queue.Queue.put
add_file(q, f) == Append(q, f)

\* a queue that hands out the file added last
get_newest_file(q) == << q[Len(q)], SubSeq(q, 1, Len(q) - 1) >>

\* TranscriptionQueue.get_next_file (34-41): queue.Queue.get_nowait on a queue
\* that is not empty; the file and what stays in the queue
get_next_file(q) == << Head(q), Tail(q) >>

\* the name is taken as generated, whatever the output directory holds
NameAsGenerated(name, dir) == 0

\* window.py 318-323: counter of the first name of the series name, name_1,
\* name_2, ... that no file of the output directory bears (0: the name itself)
UniqueCounter(name, dir) ==
    CHOOSE c \in 0..Cardinality(dir) :
        /\ \A e \in dir : ~(e.name = name /\ e.counter = c)
        /\ \A b \in 0..(c - 1) : \E e \in dir : e.name = name /\ e.counter = b

\* window.py 326: output_file.rename(final_output) replaces a file of that name
Rename(dir, name, counter, f) ==
    { e \in dir : ~(e.name = name /\ e.counter = counter) }
        \cup { [name |-> name, counter |-> counter, file |-> f] }

\* the worker is inside the per-file block (287-357)
InFile == worker.pc \in {"file", "await", "save", "rename", "name_failed"}

QueueInit ==
    /\ QueueIdle
    /\ PipelineIdle
    /\ PathIdle
    /\ SettingsIdle
    /\ RunsIdle
    /\ AssemblyIdle

\* _add_files (177-192), one file chosen
AddFiles ==
    /\ enqueued < MaxFiles
    /\ enqueued' = enqueued + 1
    /\ file_list' = file_list \cup {enqueued + 1}
    /\ queue' = add_file(queue, enqueued + 1)
    /\ status' = "added"
    /\ UNCHANGED << processing, start_btn, cancel_btn, worker, update_pending, saved,
                    started, interrupted, exiting, temp_out, besidesQueue >>

\* _remove_selected (194-198): the entry leaves the list box, the queue is not touched
RemoveSelected ==
    /\ \E f \in file_list : file_list' = file_list \ {f}
    /\ UNCHANGED << queue, enqueued, processing, start_btn, cancel_btn, worker,
                    update_pending, saved, status, started, interrupted, exiting,
                    temp_out, besidesQueue >>

\* _start_processing (370-396), called by the Start button while it is enabled
StartProcessing ==
    /\ start_btn = "normal"
    /\ file_list # {}
    /\ ~processing
    /\ processing' = TRUE
    /\ start_btn' = "disabled"
    /\ cancel_btn' = "normal"
    /\ worker' = [pc |-> "loop", file |-> 0, total |-> 0, submitted |-> 0,
                  name |-> "none", late |-> FALSE]
    /\ interrupted' = FALSE
    /\ UNCHANGED << queue, file_list, enqueued, update_pending, saved, status, started,
                    exiting, temp_out, besidesQueue >>

\* a Cancel that hands the buttons back at once
CancelEnablesStart ==
    /\ cancel_btn = "normal"
    /\ processing
    /\ processing' = FALSE
    /\ start_btn' = "normal"
    /\ cancel_btn' = "disabled"
    /\ status' = "cancelling"
    /\ interrupted' = (interrupted
                        \/ (worker.pc \in {"file", "await"} /\ worker.submitted < worker.total))
    /\ UNCHANGED << queue, file_list, enqueued, worker, update_pending, saved, started,
                    exiting, temp_out, besidesQueue >>

\* _cancel_processing (398-409), called by the Cancel button while it is enabled
CancelProcessing ==
    /\ cancel_btn = "normal"
    /\ processing
    /\ processing' = FALSE
    /\ status' = "cancelling"
    /\ interrupted' = (interrupted
                        \/ (worker.pc \in {"file", "await"} /\ worker.submitted < worker.total))
    /\ UNCHANGED << queue, file_list, enqueued, start_btn, cancel_btn, worker,
                    update_pending, saved, started, exiting, temp_out, besidesQueue >>

\* a loop that goes on whatever the flag says
LoopRegardless ==
    /\ worker.pc = "loop"
    /\ worker' = [worker EXCEPT !.pc = "dequeue"]
    /\ UNCHANGED << queue, file_list, enqueued, processing, start_btn, cancel_btn,
                    update_pending, saved, status, started, interrupted, exiting,
                    temp_out, besidesQueue >>

\* _process_queue 282: while self.processing, the flag is found set
TestFlag ==
    /\ worker.pc = "loop"
    /\ processing
    /\ worker' = [worker EXCEPT !.pc = "dequeue"]
    /\ UNCHANGED << queue, file_list, enqueued, processing, start_btn, cancel_btn,
                    update_pending, saved, status, started, interrupted, exiting,
                    temp_out, besidesQueue >>

\* _process_queue 283-290: the queue gives a file
TakeFile ==
    /\ worker.pc = "dequeue"
    /\ queue # <<>>
    /\ \E n \in 1..MaxFileChunks :
          worker' = [pc |-> "file", file |-> get_next_file(queue)[1], total |-> n,
                     submitted |-> 0, name |-> "none", late |-> ~processing]
    /\ queue' = get_next_file(queue)[2]
    /\ started' = Append(started, get_next_file(queue)[1])
    /\ status' = "processing"
    /\ UNCHANGED << file_list, enqueued, processing, start_btn, cancel_btn,
                    update_pending, saved, interrupted, exiting, temp_out,
                    besidesQueue >>

\* _process_queue 282-285: the flag is found down, or get_next_file returned None
LeaveLoop ==
    /\ \/ worker.pc = "loop" /\ ~processing
       \/ worker.pc = "dequeue" /\ queue = <<>>
    /\ worker' = [worker EXCEPT !.pc = "finish"]
    /\ UNCHANGED << queue, file_list, enqueued, processing, start_btn, cancel_btn,
                    update_pending, saved, status, started, interrupted, exiting,
                    temp_out, besidesQueue >>

\* transcribe_file -> process_chunks 111-118: the request for the next chunk
\* goes out; nothing on the way reads MainWindow.processing
SubmitChunk ==
    /\ worker.pc = "file"
    /\ worker.submitted < worker.total
    /\ worker' = [worker EXCEPT !.pc = "await", !.submitted = @ + 1]
    /\ UNCHANGED << queue, file_list, enqueued, processing, start_btn, cancel_btn,
                    update_pending, saved, status, started, interrupted, exiting,
                    temp_out, besidesQueue >>

\* process_chunks 120-132: the engine answered; after the last chunk the
\* transcript is written to output_file (147-153) and transcribe_file returns
ChunkAnswered ==
    /\ worker.pc = "await"
    /\ worker' = [worker EXCEPT !.pc = IF worker.submitted = worker.total
                                       THEN "save" ELSE "file"]
    /\ temp_out' = IF worker.submitted = worker.total THEN worker.file ELSE temp_out
    /\ UNCHANGED << queue, file_list, enqueued, processing, start_btn, cancel_btn,
                    update_pending, saved, status, started, interrupted, exiting,
                    besidesQueue >>

\* window.py 333-357: transcribe_file raised (decode, export, a chunk out of
\* attempts); the error is reported and the loop goes on
FileFails ==
    /\ worker.pc \in {"file", "await"}
    /\ worker' = [worker EXCEPT !.pc = "loop"]
    /\ status' = "failed"
    /\ UNCHANGED << queue, file_list, enqueued, processing, start_btn, cancel_btn,
                    update_pending, saved, started, interrupted, exiting, temp_out,
                    besidesQueue >>

\* window.py 312-316: _generate_filename (206-272) under tenacity's retry.  It
\* returns the name the model gave, or the timestamp name when something other
\* than an OpenAIError was raised (267-272); when the third attempt in a row
\* ends with an OpenAIError, retry raises tenacity.RetryError.
GenerateFilename ==
    /\ worker.pc = "save"
    /\ \E outcome \in {"generated", "fallback", "retry_error"}, name \in GeneratedNames :
          worker' = CASE outcome = "generated" ->
                            [worker EXCEPT !.pc = "rename", !.name = name]
                      [] outcome = "fallback" ->
                            [worker EXCEPT !.pc = "rename", !.name = FallbackName]
                      [] outcome = "retry_error" ->
                            [worker EXCEPT !.pc = "name_failed"]
    /\ UNCHANGED << queue, file_list, enqueued, processing, start_btn, cancel_btn,
                    update_pending, saved, status, started, interrupted, exiting,
                    temp_out, besidesQueue >>

\* window.py 318-331 and 340-357: the temporary file is renamed to the first
\* free name of the series; if that fails, the error is reported and the finally
\* clause unlinks the temporary file
MoveTranscript ==
    /\ worker.pc = "rename"
    /\ \E moved \in BOOLEAN :
          IF moved
          THEN /\ saved' = Rename(saved, worker.name,
                                  UniqueCounter(worker.name, saved), worker.file)
               /\ status' = "saved"
          ELSE /\ status' = "failed"
               /\ UNCHANGED saved
    /\ temp_out' = 0
    /\ worker' = [worker EXCEPT !.pc = "loop"]
    /\ UNCHANGED << queue, file_list, enqueued, processing, start_btn, cancel_btn,
                    update_pending, started, interrupted, exiting, besidesQueue >>

\* window.py 345-357: the RetryError is an Exception and no OpenAIError; it is
\* reported, and the finally clause unlinks the temporary file
NamingFails ==
    /\ worker.pc = "name_failed"
    /\ status' = "failed"
    /\ temp_out' = 0
    /\ worker' = [worker EXCEPT !.pc = "loop"]
    /\ UNCHANGED << queue, file_list, enqueued, processing, start_btn, cancel_btn,
                    update_pending, saved, started, interrupted, exiting,
                    besidesQueue >>

\* _process_queue 367-368 -> _processing_complete 411-423: the update is queued;
\* the thread has its last statement to run
Finish ==
    /\ worker.pc = "finish"
    /\ exiting < MaxExiting
    /\ update_pending' = TRUE
    /\ exiting' = exiting + 1
    /\ worker' = NoWorker
    /\ UNCHANGED << queue, file_list, enqueued, processing, start_btn, cancel_btn,
                    saved, status, started, interrupted, temp_out, besidesQueue >>

\* _processing_complete 424: "Processing complete" is reported, the thread ends
ThreadEnds ==
    /\ exiting > 0
    /\ exiting' = exiting - 1
    /\ status' = "complete"
    /\ UNCHANGED << queue, file_list, enqueued, processing, start_btn, cancel_btn,
                    worker, update_pending, saved, started, interrupted, temp_out,
                    besidesQueue >>

\* the update of _processing_complete (413-421) runs in the GUI update thread
CompleteUpdate ==
    /\ update_pending
    /\ update_pending' = FALSE
    /\ processing' = FALSE
    /\ start_btn' = "normal"
    /\ cancel_btn' = "disabled"
    /\ UNCHANGED << queue, file_list, enqueued, worker, saved, status, started,
                    interrupted, exiting, temp_out, besidesQueue >>

QueueNext ==
    \/ AddFiles
    \/ RemoveSelected
    \/ StartProcessing
    \/ CancelProcessing
    \/ TestFlag
    \/ TakeFile
    \/ LeaveLoop
    \/ SubmitChunk
    \/ ChunkAnswered
    \/ FileFails
    \/ GenerateFilename
    \/ MoveTranscript
    \/ NamingFails
    \/ Finish
    \/ ThreadEnds
    \/ CompleteUpdate

QueueSpec == QueueInit /\ [][QueueNext]_vars

\* the steps of the worker thread
WorkerStep ==
    TestFlag \/ TakeFile \/ LeaveLoop \/ SubmitChunk \/ ChunkAnswered \/ FileFails
        \/ GenerateFilename \/ MoveTranscript \/ NamingFails \/ Finish \/ ThreadEnds

\* WorkerSpec: the buttons and the worker on a queue filled beforehand: MaxFiles
\* files were added (177-192), none is added or removed while files are processed
WorkerInit ==
    /\ queue = [k \in 1..MaxFiles |-> k]
    /\ file_list = 1..MaxFiles
    /\ enqueued = MaxFiles
    /\ status = "added"
    /\ processing = FALSE
    /\ start_btn = "normal"
    /\ cancel_btn = "disabled"
    /\ worker = NoWorker
    /\ update_pending = FALSE
    /\ saved = {}
    /\ started = <<>>
    /\ interrupted = FALSE
    /\ exiting = 0
    /\ temp_out = 0
    /\ PipelineIdle
    /\ PathIdle
    /\ SettingsIdle
    /\ RunsIdle
    /\ AssemblyIdle

WorkerNext ==
    \/ StartProcessing
    \/ CancelProcessing
    \/ TestFlag
    \/ TakeFile
    \/ LeaveLoop
    \/ SubmitChunk
    \/ ChunkAnswered
    \/ FileFails
    \/ GenerateFilename
    \/ MoveTranscript
    \/ NamingFails
    \/ Finish
    \/ ThreadEnds
    \/ CompleteUpdate

WorkerSpec == WorkerInit /\ [][WorkerNext]_vars

\* the worker thread and the GUI update thread are scheduled; a request ends
WorkerFairSpec == WorkerSpec /\ WF_vars(WorkerStep) /\ WF_vars(CompleteUpdate)

(***************************************************************************)
(* C21. Once cancellation is requested while a file with chunks still to   *)
(* be submitted is being transcribed, no further chunk of it is submitted, *)
(* and when the worker ends the run is reported as cancelled, not as       *)
(* complete.                                                               *)
(***************************************************************************)
C21_Step ==
    /\ (~processing /\ worker.pc \in {"file", "await"})
          => worker'.submitted <= worker.submitted
    /\ (interrupted /\ worker.pc = "finish" /\ worker'.pc = "none")
          => status' = "cancelled"

C21_CancelBetweenChunks == [][C21_Step]_vars

(***************************************************************************)
(* C24. Files are taken from the queue in the order they were added, and   *)
(* a file is taken only when every file taken before it has left the       *)
(* per-file block.                                                         *)
(***************************************************************************)
C24_Fifo ==
    /\ \A k \in 1..Len(started) : started[k] = k
    /\ \A k \in 1..(Len(started) - 1) : ~(InFile /\ worker.file = started[k])

\* the second file is being transcribed, a third waits; the first was taken first
C24_Witness ==
    /\ started = <<1, 2>>
    /\ worker.pc = "await" /\ worker.file = 2
    /\ queue # <<>>

(***************************************************************************)
(* C25. A file that fails leaves the worker in its loop with the queue as  *)
(* it was, and from the loop the worker takes the next queued file unless  *)
(* processing was cancelled; no step removes or replaces a transcript      *)
(* saved in the output directory.                                          *)
(***************************************************************************)
C25_Step ==
    /\ saved \subseteq saved'
    /\ (InFile /\ status' = "failed" /\ worker' # worker)
          => (worker'.pc = "loop" /\ queue' = queue)

C25_GoesOn ==
    \A n \in 0..MaxFiles :
        (worker.pc = "loop" /\ status = "failed" /\ queue # <<>> /\ Len(started) = n)
            ~> (Len(started) > n \/ ~processing)

C25_FailureIsContained == [][C25_Step]_vars /\ C25_GoesOn

\* file 1 was saved, file 2 failed, file 3 was saved under the name file 1 bears
C25_Witness ==
    /\ started = <<1, 2, 3>>
    /\ \E e1, e3 \in saved :
          /\ e1.file = 1 /\ e3.file = 3
          /\ e1.name = e3.name /\ e1.counter = 0 /\ e3.counter = 1
    /\ \A e \in saved : e.file # 2
    /\ worker.pc = "loop"

(***************************************************************************)
(* SplitPointsSpec: AudioChunker._find_split_points alone (chunker.py      *)
(* 68-116), from the call chunk_audio makes for a file that is not small.  *)
(***************************************************************************)
\* chunk_audio 150-159: the state in which _find_split_points is entered
SplitPointsInit ==
    /\ pc = "find_split"
    /\ caller = "api"
    /\ tempFiles = {}
    /\ outLoc = "outside"
    /\ outFile = NoFile
    /\ finalFile = NoFile
    /\ audioLen \in Durations
    /\ fileSize \in FileSizes
    /\ ~IsSmallFile(fileSize, audioLen)
    /\ small = FALSE
    /\ current_pos = 0
    /\ split_points = <<>>
    /\ detectCalls = 0
    /\ lastRanges = <<>>
    /\ exported = <<>>
    /\ chunk_paths = <<>>
    /\ i = 0
    /\ attempt = 0
    /\ inflight = {}
    /\ subs = <<>>
    /\ oks = <<>>
    /\ lastPrompt = <<>>
    /\ transcriptions = <<>>
    /\ cbFailures = 0
    /\ purges = 0
    /\ guiStatus = "none"
    /\ returnValue = NoFile
    /\ lastError = "none"
    /\ waited = 0
    /\ sinceSubmit = 0 - 1
    /\ result = <<"none">>
    /\ PathIdle
    /\ SettingsIdle
    /\ RunsIdle
    /\ QueueIdle
    /\ AssemblyIdle

SplitPointsNext == FindSplitPointsStep

SplitPointsSpec == SplitPointsInit /\ [][SplitPointsNext]_vars

\* the loop is sequential code: a pass that can be made is made
SplitPointsFairSpec == SplitPointsSpec /\ WF_vars(FindSplitPointsStep)

(***************************************************************************)
(* C35: _find_split_points terminates for every audio duration: every pass *)
(* of its loop either leaves the loop, the target end having reached the   *)
(* duration, or moves the position forward by at least the target duration *)
(* less the 5000 ms search radius, be the boundary a detected interval's    *)
(* midpoint or a hard cut.                                                 *)
(***************************************************************************)
C35_Step ==
    pc = "find_split" =>
        \/ /\ pc' = "export"
           /\ current_pos + target_duration >= audioLen
        \/ /\ pc' = "find_split"
           /\ current_pos' >= current_pos + target_duration - SEARCH_RADIUS
           /\ current_pos' > current_pos

C35_Terminates ==
    /\ [][C35_Step]_vars
    /\ (pc = "find_split") ~> (pc = "export")

\* a search that cut once at a detected midpoint and once at the target
C35_Witness ==
    /\ pc = "export"
    /\ Len(split_points) = 4
    /\ split_points[2] # target_duration
    /\ split_points[3] = split_points[2] + target_duration

\* a worker thread is inside _process_queue, up to the queuing of its
\* completion update
WorkerRuns == worker.pc # "none"

\* worker threads that have not ended
ThreadsAlive == (IF WorkerRuns THEN 1 ELSE 0) + exiting

\* a step of _start_processing that starts a worker thread
StartsWorker == ~processing /\ processing'

(***************************************************************************)
(* C37: at most one file-processing worker thread is alive at any time,    *)
(* under every interleaving of Start, Cancel and worker completion.        *)
(***************************************************************************)
C37_OneThreadAlive == ThreadsAlive <= 1

(***************************************************************************)
(* C37, amended: at most one worker thread is inside the loop of           *)
(* _process_queue at any time.  A worker is started only when none is      *)
(* inside _process_queue and no completion update is waiting: Start while  *)
(* a worker runs starts none, and after Cancel none is started before the  *)
(* cancelled worker has left its file and its loop and the completion      *)
(* update has run.  Only a thread that has queued its completion update    *)
(* and is about to end can be alive beside the next worker.                *)
(***************************************************************************)
C37_Step ==
    /\ StartsWorker => (~WorkerRuns /\ ~update_pending /\ start_btn = "normal")
    /\ (WorkerRuns /\ WorkerRuns') => start_btn' = "disabled"

C37_OneWorkerInLoop == [][C37_Step]_vars

\* Cancel was pressed during a file: the flag is down, the worker still works
\* on the file, Start is disabled
C37_Witness ==
    /\ ~processing
    /\ worker.pc = "await"
    /\ status = "cancelling"
    /\ start_btn = "disabled"
    /\ queue # <<>>

\* Cancel was pressed and the completion update has not run yet
CancelPending == ~processing /\ cancel_btn = "normal"

\* the UI is idle
UiIdle == ~processing /\ start_btn = "normal" /\ cancel_btn = "disabled"

\* the queue holds the files not yet taken, in the order they were added
QueueIntact == queue = [k \in 1..(enqueued - Len(started)) |-> Len(started) + k]

(***************************************************************************)
(* C38: after Cancel is pressed while the worker is processing, the worker *)
(* takes at most one further file from the queue and then stops; given     *)
(* that the file in flight comes to an end, the UI returns to idle         *)
(* (processing flag down, Start enabled, Cancel disabled), and the files   *)
(* not taken stay in the queue.                                            *)
(***************************************************************************)
C38_Step ==
    /\ (Len(started') > Len(started) /\ ~processing) => ~worker.late
    /\ (~processing /\ worker.pc = "loop") => worker'.pc \in {"loop", "finish"}

C38_CancelStops ==
    /\ [][C38_Step]_vars
    /\ []QueueIntact
    /\ CancelPending ~> UiIdle

\* Cancel came between the test of the flag and the call of get_next_file: the
\* worker took one more file, and another is left in the queue
C38_Witness ==
    /\ ~processing
    /\ worker.late
    /\ worker.pc = "await"
    /\ queue # <<>>

(***************************************************************************)
(* C39: the work queue and the file list stay consistent: a file removed   *)
(* with Remove Selected before the worker takes it is never transcribed;   *)
(* every file the worker takes is in the file list when it is taken.       *)
(***************************************************************************)
C39_Step ==
    Len(started') > Len(started) => started'[Len(started')] \in file_list

C39_RemovedNotTranscribed == [][C39_Step]_vars

(***************************************************************************)
(* C40: once the transcript of a file is in the temporary output file, it  *)
(* ends up in the output directory under some final name, also when        *)
(* filename generation fails, be it with an unexpected error or with an    *)
(* OpenAIError at each of its 3 attempts; the temporary file is deleted    *)
(* only when it holds no transcript or after it was renamed.               *)
(***************************************************************************)
C40_Step ==
    (temp_out # 0 /\ temp_out' = 0 /\ worker.pc = "name_failed")
        => \E e \in saved' : e.file = temp_out

C40_TranscriptSaved == [][C40_Step]_vars

(***************************************************************************)
(* ProcessSpec: TranscriptionProcessor alone (processor.py 18-170):        *)
(* process_chunks from the call transcribe_file makes with the chunks      *)
(* exported, and _transcribe_chunk called on one chunk file.               *)
(***************************************************************************)
\* processor.py 27
retry_delays == <<1, 2, 4, 8, 16>>

\* _transcribe_chunk 51-60: the request of this attempt goes out
TranscribeChunkSubmit ==
    /\ pc = "tc_submit"
    /\ attempt' = attempt + 1
    /\ subs' = [subs EXCEPT ![i] = @ + 1]
    /\ lastError' = "none"
    /\ waited' = 0
    /\ sinceSubmit' = 0
    /\ pc' = "tc_await"
    /\ UNCHANGED << caller, tempFiles, outLoc, outFile, finalFile, plan, detectCalls,
                    chunk_paths, guiStatus, returnValue, i, inflight, oks,
                    lastPrompt, transcriptions, cbFailures, purges, result >>
    /\ UNCHANGED others

\* _transcribe_chunk 61-62: the response is returned
TranscribeChunkAnswers ==
    /\ pc = "tc_await"
    /\ \E text \in Texts, took \in Latencies :
          /\ returnValue' = TextFile(text)
          /\ sinceSubmit' = Elapsed(took)
    /\ pc' = "tc_returned"
    /\ UNCHANGED << caller, tempFiles, outLoc, outFile, finalFile, plan, detectCalls,
                    chunk_paths, guiStatus, i, attempt, inflight, subs, oks,
                    lastPrompt, transcriptions, cbFailures, lastError, waited,
                    purges, result >>
    /\ UNCHANGED others

\* _transcribe_chunk 65-71: raise at the last attempt, sleep the attempt's
\* delay otherwise
TranscribeChunkFails ==
    /\ pc = "tc_await"
    /\ \E kind \in ErrorKinds, took \in Latencies :
          /\ lastError' = kind
          /\ IF attempt = Len(retry_delays)
             THEN /\ pc' = "tc_raised"
                  /\ sinceSubmit' = Elapsed(took)
                  /\ UNCHANGED waited
             ELSE /\ waited' = retry_delays[attempt]
                  /\ sinceSubmit' = Elapsed(took + retry_delays[attempt])
                  /\ pc' = "tc_submit"
    /\ UNCHANGED << caller, tempFiles, outLoc, outFile, finalFile, plan, detectCalls,
                    chunk_paths, guiStatus, returnValue, i, attempt, inflight, subs,
                    oks, lastPrompt, transcriptions, cbFailures, purges, result >>
    /\ UNCHANGED others

\* transcribe_file 68-78: the state in which process_chunks is entered with n
\* chunks; with caller "chunk", the state in which _transcribe_chunk is called
ProcessInit ==
    /\ caller \in {"api", "chunk"}
    /\ pc = IF caller = "chunk" THEN "tc_submit" ELSE "process"
    /\ i = IF caller = "chunk" THEN 1 ELSE 0
    /\ \E n \in 1..MaxProcessChunks :
          /\ caller = "chunk" => n = 1
          /\ chunk_paths = [k \in 1..n |-> k - 1]
          /\ tempFiles = { ChunkFile(k - 1) : k \in 1..n }
          /\ subs = [k \in 1..n |-> 0]
          /\ oks = [k \in 1..n |-> 0]
          /\ lastPrompt = [k \in 1..n |-> NoPrompt]
    /\ outLoc = "outside"
    /\ outFile = NoFile
    /\ finalFile = NoFile
    /\ audioLen = 0 - 1
    /\ fileSize = 0 - 1
    /\ small = FALSE
    /\ current_pos = 0
    /\ split_points = <<>>
    /\ detectCalls = 0
    /\ lastRanges = <<>>
    /\ exported = <<>>
    /\ attempt = 0
    /\ inflight = {}
    /\ transcriptions = <<>>
    /\ cbFailures = 0
    /\ purges = 0
    /\ guiStatus = "none"
    /\ returnValue = NoFile
    /\ lastError = "none"
    /\ waited = 0
    /\ sinceSubmit = 0 - 1
    /\ result = <<"none">>
    /\ PathIdle
    /\ SettingsIdle
    /\ RunsIdle
    /\ QueueIdle
    /\ AssemblyIdle

ProcessNext ==
    \/ NextChunk
    \/ Submit
    \/ EngineAnswers
    \/ EngineFails
    \/ WriteOutput
    \/ TranscribeChunkSubmit
    \/ TranscribeChunkAnswers
    \/ TranscribeChunkFails

ProcessSpec == ProcessInit /\ [][ProcessNext]_vars

\* the processor is sequential code, and every request is taken to come back
\* with an answer or an exception
ProcessFairSpec == ProcessSpec /\ WF_vars(ProcessNext)

(***************************************************************************)
(* C32: in TranscriptionProcessor the wait after the failed attempt number *)
(* k, 1 <= k < 5, is 2^(k-1) seconds (1, 2, 4, 8), in process_chunks and   *)
(* in _transcribe_chunk alike; after the fifth failed attempt the error is *)
(* raised with no wait.                                                    *)
(***************************************************************************)
\* the number, from 1, of the attempt whose request is awaited
AttemptNumber == IF pc = "tc_await" THEN attempt ELSE attempt + 1

C32_Step ==
    (pc \in {"await", "tc_await"} /\ lastError' # "none") =>
        IF AttemptNumber < MAX_ATTEMPTS
        THEN /\ waited' = 2 ^ (AttemptNumber - 1)
             /\ pc' \in {"submit", "tc_submit"}
        ELSE /\ waited' = 0
             /\ pc' \in {"raised", "gui_exit", "tc_raised"}

C32_BackoffLadder == [][C32_Step]_vars

\* process_chunks has slept 8 seconds after its fourth failed attempt
C32_Witness ==
    /\ pc = "submit"
    /\ attempt = 4
    /\ lastError = "retryable"
    /\ waited = 8

\* process_chunks is running
InProcessChunks == pc \in {"process", "submit", "await"}

\* process_chunks is over: the output is written, or an exception has left it
ProcessChunksOver ==
    \/ pc = "teardown" /\ outFile = TextFile(final_text(transcriptions))
    \/ pc = "raised" /\ result[1] = "raised"

\* a step of process_chunks can be taken: the guards of NextChunk, WriteOutput,
\* Submit and EngineFails
CanGoOn ==
    \/ pc = "process" /\ i < Len(chunk_paths)
    \/ pc = "process" /\ i = Len(chunk_paths)
    \/ pc = "submit"
    \/ pc = "await"

\* the steps a chunk takes at most: the loop head, then a request and its
\* outcome per attempt
StepsPerChunk == 2 * MAX_ATTEMPTS + 1

\* the steps process_chunks can still take
StepsLeft ==
    IF ~InProcessChunks THEN 0
    ELSE (Len(chunk_paths) - i) * StepsPerChunk + 1
         + (CASE pc = "submit" -> 2 * (MAX_ATTEMPTS - attempt)
              [] pc = "await" -> 2 * (MAX_ATTEMPTS - attempt) - 1
              [] OTHER -> 0)

(***************************************************************************)
(* C36: every run of process_chunks over N chunks ends, given that every   *)
(* request comes back: it sends at most 5 requests per chunk, at most 5*N  *)
(* in all, and ends with the output written or with an error raised,       *)
(* however the engine and the callback fail.  Ending is stated by a count  *)
(* of steps left that every step lowers, and by the absence of a state in  *)
(* which process_chunks is neither over nor able to take a step.           *)
(***************************************************************************)
C36_Step == caller = "api" => (StepsLeft' < StepsLeft /\ StepsLeft' >= 0)

C36_Terminates ==
    /\ [](\A j \in 1..Len(chunk_paths) : subs[j] <= MAX_ATTEMPTS)
    /\ [](SumTo(subs, Len(chunk_paths)) <= MAX_ATTEMPTS * Len(chunk_paths))
    /\ [](caller = "api" => (InProcessChunks \/ ProcessChunksOver))
    /\ [](InProcessChunks => CanGoOn)
    /\ [][C36_Step]_vars

\* a run that raised after five requests for its second chunk, one of them
\* answered and lost to the callback
C36_Witness ==
    /\ pc = "raised"
    /\ i = 2
    /\ subs[i] = MAX_ATTEMPTS
    /\ cbFailures > 0

(***************************************************************************)
(* AssemblySpec: TranscriptionHandler.transcribe_file seen at the level of *)
(* the texts: the prompt each request carries and the text returned        *)
(* (handler.py 37-65, 93-130).                                             *)
(***************************************************************************)
\* "x" followed by n - 1 words "w", one blank between two words
ManyWords(n) == <<"x">> \o [k \in 1..(2 * (n - 1)) |-> IF k % 2 = 1 THEN " " ELSE "w"]

\* what the engine may answer for a chunk
AssemblyTexts ==
    { <<"o", "k">>, <<" ", "a", "\n", " ", "b", " ">>, <<" ">>,
      <<"a">> \o Periods(3) \o <<"b">>, Periods(4), Periods(9),
      ManyWords(PROMPT_TOKENS + 1) }

\* transcribe_file 94, 107: previous_text
asm_previous_text ==
    IF transcription_parts = <<>> THEN <<>>
    ELSE transcription_parts[Len(transcription_parts)]

AssemblyInit ==
    /\ AssemblyIdle
    /\ PipelineIdle
    /\ PathIdle
    /\ SettingsIdle
    /\ RunsIdle
    /\ QueueIdle

\* transcribe_file 93-102: the loop is entered with the first chunk
AsmBegin ==
    /\ asm_pc = "idle"
    /\ asm_pc' = "submit"
    /\ UNCHANGED << transcription_parts, prompt, asm_tries, full_text >>
    /\ UNCHANGED besidesAssembly

\* _transcribe_chunk 48-60: one call of the decorated function
AsmSubmit ==
    /\ asm_pc = "submit"
    /\ prompt' = HandlerPrompt(asm_previous_text)
    /\ asm_tries' = asm_tries + 1
    /\ asm_pc' = "await"
    /\ UNCHANGED << transcription_parts, full_text >>
    /\ UNCHANGED besidesAssembly

\* _transcribe_chunk 62, transcribe_file 105-107: the text is appended
AsmAnswers ==
    /\ asm_pc = "await"
    /\ \E text \in AssemblyTexts :
          transcription_parts' = Append(transcription_parts, text)
    /\ asm_pc' = "between"
    /\ UNCHANGED << prompt, asm_tries, full_text >>
    /\ UNCHANGED besidesAssembly

\* _transcribe_chunk 63-65 under backoff.on_exception (31-36): called again with
\* the same arguments, or the exception leaves transcribe_file (132-134)
AsmFails ==
    /\ asm_pc = "await"
    /\ \E timeUp \in BOOLEAN :
          asm_pc' = IF GivesUp(asm_tries, timeUp) THEN "raised" ELSE "submit"
    /\ UNCHANGED << transcription_parts, prompt, asm_tries, full_text >>
    /\ UNCHANGED besidesAssembly

\* transcribe_file 96: the next chunk path
AsmNextChunk ==
    /\ asm_pc = "between"
    /\ Len(transcription_parts) < MaxParts
    /\ asm_tries' = 0
    /\ asm_pc' = "submit"
    /\ UNCHANGED << transcription_parts, prompt, full_text >>
    /\ UNCHANGED besidesAssembly

\* transcribe_file 122-130: the loop is over, the text is assembled and returned
AsmFinish ==
    /\ asm_pc = "between"
    /\ full_text' = handler_full_text(transcription_parts)
    /\ asm_pc' = "returned"
    /\ UNCHANGED << transcription_parts, prompt, asm_tries >>
    /\ UNCHANGED besidesAssembly

AssemblyNext ==
    \/ AsmBegin
    \/ AsmSubmit
    \/ AsmAnswers
    \/ AsmFails
    \/ AsmNextChunk
    \/ AsmFinish

AssemblySpec == AssemblyInit /\ [][AssemblyNext]_vars

\* p holds single blanks only, each between two words
SingleSpaced(p) ==
    \A k \in 1..Len(p) :
        IsSpace(p[k]) => /\ p[k] = " "
                         /\ 1 < k /\ k < Len(p)
                         /\ ~IsSpace(p[k + 1])

\* the words of p are the last PROMPT_TOKENS words of prev, or all it has
LastTokensOf(p, prev) ==
    LET w == Words(prev)
        n == Min(Len(w), PROMPT_TOKENS)
    IN /\ Words(p) = SubSeq(w, Len(w) - n + 1, Len(w))
       /\ SingleSpaced(p)

(***************************************************************************)
(* C31: every request of the handler for chunk i > 1, first try or retry,  *)
(* carries as prompt the last at most 200 words of the text returned for   *)
(* chunk i-1, joined by single blanks; every request for chunk 1 carries   *)
(* the empty prompt.  Nothing of earlier chunks enters the prompt.         *)
(***************************************************************************)
C31_HandlerPrompt ==
    asm_pc = "await" =>
        IF transcription_parts = <<>>
        THEN prompt = <<>>
        ELSE LastTokensOf(prompt, transcription_parts[Len(transcription_parts)])

\* a retry for chunk 3 after a chunk 2 of 201 words and a different chunk 1
C31_Witness ==
    /\ asm_pc = "await"
    /\ asm_tries = 2
    /\ Len(transcription_parts) = 2
    /\ transcription_parts[1] = <<"o", "k">>
    /\ transcription_parts[2] = ManyWords(PROMPT_TOKENS + 1)
    /\ Len(Words(prompt)) = PROMPT_TOKENS
    /\ ~Occurs(<<"x">>, prompt)

\* the chunk texts that survive the filter of line 124, stripped
KeptParts ==
    SelectSeq([k \in 1..Len(transcription_parts) |-> Strip(transcription_parts[k])],
              NonEmpty)

\* a text the normalization of lines 127-128 has nothing to change in
Plain(t) == ~Occurs(<<"\n">>, t) /\ ~Occurs(Periods(3), t)

(***************************************************************************)
(* C33: in the text transcribe_file returns, the texts of two consecutive  *)
(* non-empty chunks stand in chunk order with a blank line (two newline    *)
(* characters) between them.                                               *)
(***************************************************************************)
C33_BlankLineBetweenChunks ==
    asm_pc = "returned" =>
        \A k \in 1..(Len(KeptParts) - 1) :
            (Plain(KeptParts[k]) /\ Plain(KeptParts[k + 1])) =>
                Occurs(KeptParts[k] \o <<"\n", "\n">> \o KeptParts[k + 1], full_text)

\* the length of the run of periods t begins with
RunLength(t) ==
    LET ends == { k \in 0..Len(t) : \A j \in 1..k : t[j] = "." }
    IN CHOOSE k \in ends : \A j \in ends : j <= k

RECURSIVE CollapseRuns(_)
\* t with every run of three or more periods turned into one period
CollapseRuns(t) ==
    LET a == Find(Periods(3), t)
    IN IF a = 0 THEN t
       ELSE LET rest == SubSeq(t, a, Len(t))
            IN SubSeq(t, 1, a - 1) \o <<".">>
                   \o CollapseRuns(SubSeq(rest, RunLength(rest) + 1, Len(rest)))

(***************************************************************************)
(* C34: in the text transcribe_file assembles every run of three or more   *)
(* periods has become a single period: the text returned holds no "...",   *)
(* and normalizing it once more changes nothing.                           *)
(***************************************************************************)
C34_EllipsesCollapsed ==
    asm_pc = "returned" =>
        /\ ReplaceEllipsis(final_text(transcription_parts))
               = CollapseRuns(final_text(transcription_parts))
        /\ ~Occurs(Periods(3), full_text)
        /\ handler_normalize(full_text) = full_text
====